---- MODULE Spec2Model ----
(***************************************************************************)
(* Bullet selection and ranking of the ATS resume builder                  *)
(* (src/src/ats_builder/match.py).                                         *)
(*                                                                         *)
(* Strings are sequences of one-character strings, so that lower(),        *)
(* strip(), split() and the tokenisers act on characters as in the code.   *)
(* Scores are exact rationals [n, d] in lowest terms; the TF-IDF cosine is *)
(* computed in fixed point (thousandths).  Python lists are sequences;     *)
(* role_index and bullet_index keep the code's 0-based numbering.          *)
(***************************************************************************)
EXTENDS Integers, Sequences, FiniteSets, TLC

VARIABLES candidate, keywords, job_text, budgets, sklearn, pc, selection, prev,
          call, ret, job, personal_notes, resume_ctx, letter_ctx, calls,
          args, step, ans, eval_report, edits, written

vars == <<candidate, keywords, job_text, budgets, sklearn, pc, selection, prev,
          call, ret, job, personal_notes, resume_ctx, letter_ctx, calls,
          args, step, ans, eval_report, edits, written>>

(* a direct call of one of the scorers, and the value it returned *)
scorer_vars == <<call, ret>>

(* the job posting, the notes given to build_cover_letter, the two contexts *)
(* built from a selection, and how often build_resume_context was called    *)
assembler_vars == <<job, personal_notes, resume_ctx, letter_ctx, calls>>

(* a run of the command line (cli.py main): its flags, the step it has      *)
(* reached, the answer to the --confirm-jd prompt, the evaluation report,   *)
(* the edits of the review and the files written so far, in order           *)
cli_vars == <<args, step, ans, eval_report, edits, written>>

----------------------------------------------------------------------------
(* Bounds *)

MaxRoles == 3

MaxBudget == 2

MaxKeywords == 3

MaxBullets == 2

MaxPieces == 2

----------------------------------------------------------------------------
(* Characters and Python's string methods *)

Whitespace == {" ", "\t", "\n"}

Punct == {".", ",", ";", ":", "!", "?"}

UpperSeq == <<"A","B","C","D","E","F","G","H","I","J","K","L","M",
              "N","O","P","Q","R","S","T","U","V","W","X","Y","Z">>

LowerSeq == <<"a","b","c","d","e","f","g","h","i","j","k","l","m",
              "n","o","p","q","r","s","t","u","v","w","x","y","z">>

Digits == {"0","1","2","3","4","5","6","7","8","9"}

Range(s) == {s[i] : i \in DOMAIN s}

(* The same sequence / function, with every element computed once: TLC      *)
(* would otherwise recompute an element on each access.                     *)
list(s) == s \o <<>>

table(f) == f @@ <<>>

UpperChars == Range(UpperSeq)

WordChars == UpperChars \cup Range(LowerSeq) \cup Digits \cup {"_"}

LowerChar(c) ==
  IF c \in UpperChars
  THEN LowerSeq[CHOOSE i \in DOMAIN UpperSeq : UpperSeq[i] = c]
  ELSE c

lower(s) == list([i \in DOMAIN s |-> LowerChar(s[i])])

RECURSIVE LStrip(_, _)
LStrip(s, chars) ==
  IF s # <<>> /\ Head(s) \in chars THEN LStrip(Tail(s), chars) ELSE s

RECURSIVE RStrip(_, _)
RStrip(s, chars) ==
  IF s # <<>> /\ s[Len(s)] \in chars
  THEN RStrip(SubSeq(s, 1, Len(s) - 1), chars)
  ELSE s

strip(s, chars) == RStrip(LStrip(s, chars), chars)

(* Fields(s, i, cur, acc, chars, inside): the maximal runs of characters of  *)
(* s that are not separators, left to right; c is a separator when          *)
(* (c \in chars) = inside.                                                  *)
RECURSIVE Fields(_, _, _, _, _, _)
Fields(s, i, cur, acc, chars, inside) ==
  IF i > Len(s)
  THEN IF cur = <<>> THEN acc ELSE Append(acc, cur)
  ELSE IF (s[i] \in chars) = inside
       THEN Fields(s, i + 1, <<>>, IF cur = <<>> THEN acc ELSE Append(acc, cur), chars, inside)
       ELSE Fields(s, i + 1, Append(cur, s[i]), acc, chars, inside)

split(s) == Fields(s, 1, <<>>, <<>>, Whitespace, TRUE)

----------------------------------------------------------------------------
(* Exact rationals *)

RECURSIVE GCD(_, _)
GCD(a, b) == IF b = 0 THEN a ELSE GCD(b, a % b)

LCM(a, b) == (a \div GCD(a, b)) * b

Rat(n, d) == LET g == GCD(n, d) IN IF n = 0 THEN [n |-> 0, d |-> 1] ELSE [n |-> n \div g, d |-> d \div g]

Zero == Rat(0, 1)

RatAdd(x, y) ==
  LET l == LCM(x.d, y.d) IN Rat(x.n * (l \div x.d) + y.n * (l \div y.d), l)

RatScale(x, n, d) == LET r == Rat(n, d)
                         g1 == GCD(x.n, r.d)
                         g2 == GCD(r.n, x.d)
                     IN  IF x.n = 0 \/ n = 0 THEN Zero
                         ELSE Rat((x.n \div g1) * (r.n \div g2), (x.d \div g2) * (r.d \div g1))

RatLess(x, y) ==
  LET l == LCM(x.d, y.d) IN x.n * (l \div x.d) < y.n * (l \div y.d)

RatPos(x) == x.n > 0

----------------------------------------------------------------------------
(* Exceptions: a call either returns a value or raises *)

Return(v) == [exc |-> FALSE, val |-> v]

Raise == [exc |-> TRUE, val |-> <<>>]

----------------------------------------------------------------------------
(* Keyword-overlap scorer *)

normalize_token(t) == strip(strip(lower(t), Whitespace), Punct)

token_set(text) ==
  LET ts == split(text)
  IN  {normalize_token(ts[i]) : i \in {j \in DOMAIN ts : strip(ts[j], Whitespace) # <<>>}}

Max(a, b) == IF a >= b THEN a ELSE b

Min(a, b) == IF a <= b THEN a ELSE b

(* faulty variant: the two weights exchanged, base * 0.3 + density * 0.7     *)
overlap_score_weights_exchanged(overlap, tokens, kws) ==
  RatAdd(RatScale(Rat(overlap, Max(1, Cardinality(kws))), 3, 10),
         RatScale(Rat(overlap, Max(1, Cardinality(tokens))), 7, 10))

(* base * 0.7 + density * 0.3 for overlap matches between the token set      *)
(* and the keyword set                                                      *)
overlap_score(overlap, tokens, kws) ==
  RatAdd(RatScale(Rat(overlap, Max(1, Cardinality(kws))), 7, 10),
         RatScale(Rat(overlap, Max(1, Cardinality(tokens))), 3, 10))

score_tokens_against(tokens, kws) ==
  IF tokens = {} \/ kws = {}
  THEN Zero
  ELSE overlap_score(Cardinality(tokens \cap kws), tokens, kws)

(* faulty variant: the keyword list is counted, not the keyword set, so a     *)
(* repeated keyword lowers base                                             *)
score_text_counting_duplicates(text, kwlist) ==
  IF token_set(text) = {} \/ kwlist = <<>>
  THEN Zero
  ELSE overlap_score(Cardinality(token_set(text)
                                 \cap {normalize_token(kwlist[i]) : i \in DOMAIN kwlist}),
                     token_set(text), DOMAIN kwlist)

score_text_against_keywords(text, kwlist) ==
  score_tokens_against(token_set(text),
                       {normalize_token(kwlist[i]) : i \in DOMAIN kwlist})

----------------------------------------------------------------------------
(* Semantic similarity: TF-IDF cosine, with the token-Jaccard fallback *)

(* faulty variant: inter over the job tokens alone, not over the union      *)
jaccard_over_job_tokens(bt, jd_tokens) ==
  Rat(Cardinality(bt \cap jd_tokens),
      IF Cardinality(jd_tokens) # 0 THEN Cardinality(jd_tokens) ELSE 1)

(* inter / union, with union replaced by 1 when it is 0 *)
jaccard(bt, jd_tokens) ==
  Rat(Cardinality(bt \cap jd_tokens),
      IF Cardinality(bt \cup jd_tokens) # 0 THEN Cardinality(bt \cup jd_tokens) ELSE 1)

jaccard_against(bullets, jd_tokens) ==
  list([i \in DOMAIN bullets |-> jaccard(token_set(bullets[i]), jd_tokens)])

jaccard_fallback(bullets, jt) == jaccard_against(bullets, token_set(jt))

(* TfidfVectorizer's analyzer: lowercase, tokens are the maximal runs of    *)
(* two or more word characters, terms are the unigrams and the bigrams.     *)
analyzer_tokens(doc) ==
  SelectSeq(Fields(lower(doc), 1, <<>>, <<>>, WordChars, FALSE), LAMBDA r : Len(r) >= 2)

ngrams(toks) ==
  list([i \in 1..Len(toks) |-> <<toks[i]>>])
  \o [i \in 1..(IF Len(toks) = 0 THEN 0 ELSE Len(toks) - 1) |-> <<toks[i], toks[i + 1]>>]

analyzer_terms(doc) == ngrams(analyzer_tokens(doc))

term_count(term, terms) == Cardinality({i \in DOMAIN terms : terms[i] = term})

(* ln(a / b) in units of 1/LnScale, by the series 2 * atanh((a-b)/(a+b)),  *)
(* for a >= b >= 1.                                                         *)
LnScale == 10000

LnTerms == 9

RECURSIVE AtanhSum(_, _, _)
AtanhSum(term, z2, k) ==
  IF k >= LnTerms THEN 0
  ELSE (term \div (2 * k + 1)) + AtanhSum((term * z2) \div LnScale, z2, k + 1)

Ln(a, b) ==
  LET z == ((a - b) * LnScale) \div (a + b)
  IN  2 * AtanhSum(z, (z * z) \div LnScale, 0)

(* smooth idf = ln((1 + n) / (1 + df)) + 1, in hundredths *)
IdfScale == 100

idf(n, df) == IdfScale + (Ln(1 + n, 1 + df) + 50) \div 100

RECURSIVE ISqrtBetween(_, _, _)
ISqrtBetween(x, lo, hi) ==
  IF lo >= hi THEN lo
  ELSE LET mid == (lo + hi + 1) \div 2
       IN  IF mid * mid <= x THEN ISqrtBetween(x, mid, hi) ELSE ISqrtBetween(x, lo, mid - 1)

ISqrt(x) == ISqrtBetween(x, 0, Min(x, 46340))

RECURSIVE SumOver(_, _)
SumOver(S, f) ==
  IF S = {} THEN 0
  ELSE LET x == CHOOSE y \in S : TRUE IN f[x] + SumOver(S \ {x}, f)

CosScale == 1000

(* the analysed documents, docs[1] being the job text *)
doc_terms(docs) == list([i \in DOMAIN docs |-> analyzer_terms(docs[i])])

vocabulary(terms) == UNION {Range(terms[i]) : i \in DOMAIN terms}

doc_freq(t, terms) == Cardinality({i \in DOMAIN terms : t \in Range(terms[i])})

(* fit_transform before normalisation: tf * idf of every term, per document *)
tfidf_weights(terms, vocab) ==
  list([i \in DOMAIN terms |->
          table([t \in vocab |-> term_count(t, terms[i]) * idf(Len(terms), doc_freq(t, terms))])])

Dot(u, v) == SumOver(DOMAIN u, table([t \in DOMAIN u |-> u[t] * v[t]]))

(* the cosine of two rows from their dot product and their norms, in        *)
(* thousandths                                                              *)
cosine_of(dot, norm_u, norm_v) ==
  IF norm_u = 0 \/ norm_v = 0
  THEN Zero
  ELSE Rat(Min(CosScale, (dot * CosScale) \div (norm_u * norm_v)), CosScale)

(* cosine_similarity(X[1:], X[0]) *)
cosine_similarity(w) ==
  list([i \in 1..(Len(w) - 1) |->
          cosine_of(Dot(w[i + 1], w[1]), ISqrt(Dot(w[i + 1], w[i + 1])), ISqrt(Dot(w[1], w[1])))])

tfidf_rows(terms, vocab, importable) ==
  IF ~importable \/ vocab = {}
  THEN Raise
  ELSE Return(cosine_similarity(tfidf_weights(terms, vocab)))

tfidf_of(terms, importable) == tfidf_rows(terms, vocabulary(terms), importable)

(* The try block.  Raises when scikit-learn cannot be imported or the       *)
(* vocabulary is empty.                                                     *)
tfidf_cosine(bullets, jt, importable) == tfidf_of(doc_terms(<<jt>> \o bullets), importable)

(* faulty variant: no try/except around the TF-IDF computation *)
tfidf_similarity_unguarded(bullets, jt, importable) == tfidf_cosine(bullets, jt, importable)

(* try: r, except Exception: handler *)
try_except(r, handler) == IF r.exc THEN Return(handler) ELSE r

tfidf_similarity(bullets, jt, importable) ==
  try_except(tfidf_cosine(bullets, jt, importable), jaccard_fallback(bullets, jt))

----------------------------------------------------------------------------
(* Python values *)

None == <<"None">>

Truthy(x) == x # None /\ x # <<>>

----------------------------------------------------------------------------
(* Inputs *)

tLedAwsCost == <<"L","e","d"," ","A","W","S",","," ","c","o","s","t">>

tAwsTeam == <<"a","w","s"," ","t","e","a","m">>

tRanOps == <<"r","a","n"," ","o","p","s">>

tX == <<"x">>

kAws == <<"a","w","s">>

kCost == <<"c","o","s","t">>

kPy == <<"P","y">>

jAwsCostTeam == <<"a","w","s"," ","c","o","s","t"," ","t","e","a","m">>

jXY == <<"x"," ","y">>

tMigration == <<"L","e","d"," ","m","i","g","r","a","t","i","o","n"," ","t","o"," ","A","W","S",","," ","r","e","d","u","c","i","n","g"," ","c","o","s","t"," ","2","0","%">>

tAwsAws == <<"a","w","s"," ","a","w","s">>

tDots == <<".",".",".">>

tBlank == <<" ">>

kMigration == <<"m","i","g","r","a","t","i","o","n">>

kAwsPunct == <<"A","W","S",",">>

Bullet(text, source_ids) == [text |-> text, source_ids |-> source_ids]

Experience(company, bullets, skills) ==
  [company |-> company, role |-> "Engineer", start |-> "2020", end |-> "2022",
   bullets |-> bullets, skills |-> skills]

RoleSet ==
  { Experience("Acme",
               <<Bullet(tRanOps, <<"li">>), Bullet(tAwsTeam, <<"cv", "li">>),
                 Bullet(tAwsTeam, <<"li">>), Bullet(tLedAwsCost, <<"cv">>)>>,
               <<>>),
    Experience("Bolt",
               <<Bullet(tRanOps, <<"cv">>), Bullet(tAwsTeam, <<"cv">>)>>,
               <<kAws, kPy>>),
    Experience("Cato", <<>>, <<kAws>>),
    Experience("Dyne", <<Bullet(tX, <<"cv">>), Bullet(tX, <<"li">>)>>, <<>>) }

(* the roles of the candidates of a command-line run *)
rAcme ==
  Experience("Acme", <<Bullet(tMigration, <<"cv">>), Bullet(tAwsTeam, <<"cv", "li">>)>>, <<>>)

(* a role whose only bullet has no text: its skill tag alone scores it *)
rBolt == Experience("Bolt", <<Bullet(<<>>, <<"li">>)>>, <<kAws>>)

rCato == Experience("Cato", <<>>, <<kAws>>)

CliRoles == {rAcme, rBolt, rCato}

CliKeywords == <<kAws, kCost>>

RECURSIVE SeqsUpTo(_, _)
SeqsUpTo(S, n) ==
  IF n = 0 THEN {<<>>}
  ELSE LET shorter == SeqsUpTo(S, n - 1)
       IN  shorter \cup {Append(q, x) : q \in shorter, x \in S}

tAda == <<"A","d","a">>

Identity == [name |-> tAda, email |-> "ada@example.org", phone |-> None,
             location |-> None, links |-> <<>>]

Education == [institution |-> "MIT", degree |-> "BSc", start |-> "2010", end |-> "2014"]

(* a Candidate with the given roles; the lists not given are empty, as the   *)
(* dataclass defaults make them                                             *)
Candidate(work_experience) ==
  [identity |-> Identity, work_experience |-> work_experience,
   education |-> <<Education>>, skills_hard |-> <<>>, skills_soft |-> <<>>]

JobPosting(text, title, company, location, kwlist) ==
  [text |-> text, title |-> title, company |-> company, location |-> location,
   keywords |-> kwlist]

(* candidates with up to MaxRoles roles, no role listed twice *)
Candidates ==
  {Candidate(w) : w \in {q \in SeqsUpTo(RoleSet, MaxRoles) :
                           \A i, j \in DOMAIN q : i # j => q[i] # q[j]}}

KeywordLists == {<<>>, <<kAws, kCost, kAws>>}

JobTexts == {None, <<>>, jAwsCostTeam, jXY}

(* (b0, b1, b2): an older role never gets a larger budget than a more       *)
(* recent one, as in the triples the command line passes, (6,4,2) and       *)
(* (5,3,1)                                                                  *)
BudgetTriples ==
  {b \in (0..MaxBudget) \X (0..MaxBudget) \X (0..MaxBudget) : b[1] >= b[2] /\ b[2] >= b[3]}

----------------------------------------------------------------------------
(* select_bullets *)

(* faulty variant: only the first source id is carried over *)
SelectedBullet_first_source(ridx, bidx, b, s) ==
  [role_index |-> ridx, bullet_index |-> bidx, text |-> b.text,
   source_ids |-> SubSeq(b.source_ids, 1, Min(1, Len(b.source_ids))), score |-> s]

SelectedBullet(ridx, bidx, b, s) ==
  [role_index |-> ridx, bullet_index |-> bidx, text |-> b.text,
   source_ids |-> b.source_ids, score |-> s]

sim_scores(bullet_texts, jt, importable) ==
  IF Truthy(jt) /\ Truthy(bullet_texts)
  THEN tfidf_similarity(bullet_texts, jt, importable)
  ELSE Return(list([i \in DOMAIN bullet_texts |-> Zero]))

(* Both scorers are pure: their values on the inputs of the model, computed *)
(* once.                                                                    *)
texts_of(exp) == list([i \in DOMAIN exp.bullets |-> exp.bullets[i].text])

BulletTexts == UNION {Range(texts_of(r)) : r \in RoleSet \cup CliRoles}

sim_scores_memo ==
  table([a \in {texts_of(r) : r \in RoleSet \cup CliRoles} \X JobTexts \X BOOLEAN |->
           sim_scores(a[1], a[2], a[3])])

keyword_score_memo ==
  table([a \in BulletTexts \X (KeywordLists \cup {CliKeywords}) |->
           score_text_against_keywords(a[1], a[2])])

(* faulty variant: the skill boost counts every skill tag, matched or not *)
skill_overlap_all_tags(exp, kwlist) == Cardinality(Range(exp.skills))

skill_overlap(exp, kwlist) == Cardinality(Range(exp.skills) \cap Range(kwlist))

(* faulty variant: the weights of the two scores exchanged *)
blend_weights_exchanged(sem, kw_score, exp, kwlist) ==
  RatAdd(RatAdd(RatScale(sem, 4, 10), RatScale(kw_score, 6, 10)),
         Rat(5 * skill_overlap(exp, kwlist), 100))

(* faulty variant: the skill boost is added only to a bullet that scored *)
blend_boost_when_scored(sem, kw_score, exp, kwlist) ==
  IF RatPos(sem) \/ RatPos(kw_score)
  THEN RatAdd(RatAdd(RatScale(sem, 6, 10), RatScale(kw_score, 4, 10)),
              Rat(5 * skill_overlap(exp, kwlist), 100))
  ELSE Zero

blend(sem, kw_score, exp, kwlist) ==
  RatAdd(RatAdd(RatScale(sem, 6, 10), RatScale(kw_score, 4, 10)),
         Rat(5 * skill_overlap(exp, kwlist), 100))

(* faulty variant: s >= 0 instead of s > 0 *)
eligible_nonnegative(s) == s.n >= 0

eligible(s) == RatPos(s)

(* s of every bullet of the role, in bullet order *)
bullet_scores(exp, kwlist, sims) ==
  list([i \in DOMAIN exp.bullets |->
          blend(IF i <= Len(sims) THEN sims[i] ELSE Zero,
                keyword_score_memo[<<exp.bullets[i].text, kwlist>>],
                exp, kwlist)])

(* the inner loop: the SelectedBullets of role idx (0-based) with s > 0,    *)
(* in bullet order                                                          *)
appended(idx, exp, s, keep) ==
  list([k \in DOMAIN keep |->
          SelectedBullet(idx, keep[k] - 1, exp.bullets[keep[k]], s[keep[k]])])

scored_with(idx, exp, s) ==
  appended(idx, exp, s,
           SelectSeq(list([i \in DOMAIN exp.bullets |-> i]), LAMBDA i : eligible(s[i])))

scored_bullets(idx, exp, kwlist, sims) == scored_with(idx, exp, bullet_scores(exp, kwlist, sims))

(* list.sort(key=score, reverse=True): stable, so equal scores keep their   *)
(* relative order                                                           *)
RECURSIVE InsertDesc(_, _)
InsertDesc(sorted, x) ==
  IF sorted = <<>> THEN <<x>>
  ELSE IF RatLess(Head(sorted).score, x.score)
       THEN <<x>> \o sorted
       ELSE <<Head(sorted)>> \o InsertDesc(Tail(sorted), x)

RECURSIVE SortFrom(_, _, _)
SortFrom(seq, i, acc) ==
  IF i > Len(seq) THEN acc ELSE SortFrom(seq, i + 1, InsertDesc(acc, seq[i]))

Reverse(seq) == list([i \in DOMAIN seq |-> seq[Len(seq) + 1 - i]])

(* faulty variant: sorted ascending, then reversed: equal scores come out in        *)
(* reverse bullet order                                                     *)
sort_by_score_ties_reversed(seq) == SortFrom(Reverse(seq), 1, <<>>)

(* faulty variant: the order of equal scores differs from one call to the next      *)
sort_by_score_call_dependent(seq) ==
  IF prev.called THEN SortFrom(Reverse(seq), 1, <<>>) ELSE SortFrom(seq, 1, <<>>)

sort_by_score(seq) == SortFrom(seq, 1, <<>>)

(* faulty variant: every role gets the first budget *)
budget_for_first_only(idx, b) == b[1]

budget_for(idx, b) ==
  IF idx = 0 THEN b[1]
  ELSE IF idx = 1 THEN b[2]
  ELSE b[3]

(* faulty variant: seq[-k:], the last k instead of the first k *)
slice_to_from_end(seq, k) ==
  IF k > 0 THEN SubSeq(seq, Max(1, Len(seq) - k + 1), Len(seq)) ELSE seq

(* seq[:k] *)
slice_to(seq, k) ==
  IF k >= 0 THEN SubSeq(seq, 1, Min(k, Len(seq)))
  ELSE SubSeq(seq, 1, Max(0, Len(seq) + k))

(* faulty variant: budget left unused by the preceding role is added to this one's *)
role_selection_borrowing(cand, idx, kwlist, jt, b) ==
  LET exp    == cand.work_experience[idx + 1]
      sims   == sim_scores_memo[<<texts_of(exp), jt, sklearn>>]
      before == IF idx = 0 THEN exp ELSE cand.work_experience[idx]
      spare  == IF idx = 0 THEN 0
                ELSE Max(0, budget_for(idx - 1, b)
                            - Len(scored_bullets(idx - 1, before, kwlist,
                                    sim_scores_memo[<<texts_of(before), jt, sklearn>>].val)))
  IN  IF sims.exc THEN Raise
      ELSE Return(slice_to(sort_by_score(scored_bullets(idx, exp, kwlist, sims.val)),
                           budget_for(idx, b) + spare))

(* one iteration of the loop over candidate.work_experience *)
ranked_role(idx, exp, kwlist, sims, budget) ==
  IF sims.exc THEN Raise
  ELSE Return(slice_to(sort_by_score(scored_bullets(idx, exp, kwlist, sims.val)), budget))

role_selection(cand, idx, kwlist, jt, b) ==
  ranked_role(idx, cand.work_experience[idx + 1], kwlist,
              sim_scores_memo[<<texts_of(cand.work_experience[idx + 1]), jt, sklearn>>],
              budget_for(idx, b))

(* faulty variant: a repeated entry moves to the place of its last occurrence *)
RECURSIVE fromkeys_keep_last(_, _)
fromkeys_keep_last(xs, acc) ==
  IF xs = <<>> THEN acc
  ELSE fromkeys_keep_last(Tail(xs),
                          Append(SelectSeq(acc, LAMBDA x : x # Head(xs)), Head(xs)))

(* list(dict.fromkeys(xs)): first occurrences, in order *)
RECURSIVE fromkeys(_, _)
fromkeys(xs, acc) ==
  IF xs = <<>> THEN acc
  ELSE fromkeys(Tail(xs), IF Head(xs) \in Range(acc) THEN acc ELSE Append(acc, Head(xs)))

(* SelectionResult(selected_by_role=dict(selected), keywords=...), unless   *)
(* an iteration raised                                                      *)
SelectionResult(roles, kwlist) ==
  IF \E i \in DOMAIN roles : roles[i].exc
  THEN Raise
  ELSE Return([selected_by_role |-> [i \in DOMAIN roles |-> roles[i].val],
               keywords |-> fromkeys(kwlist, <<>>)])

select_bullets(cand, kwlist, jt, b) ==
  SelectionResult(table([i \in 0..(Len(cand.work_experience) - 1) |->
                           role_selection(cand, i, kwlist, jt, b)]),
                  kwlist)

----------------------------------------------------------------------------
(* State machine: a caller invokes select_bullets on its inputs, and may    *)
(* invoke it a second time on the same inputs.  prev keeps what the first   *)
(* call was given and returned.                                             *)

EmptySelection == [selected_by_role |-> <<>>, keywords |-> <<>>]

NoCall == [fn |-> "none"]

NoLetter == [greeting |-> <<>>, paragraphs |-> <<>>, closing |-> <<>>]

(* nothing assembled yet, for the job posting the selector's arguments came *)
(* from                                                                     *)
NotAssembled ==
  /\ personal_notes = None
  /\ resume_ctx = None
  /\ letter_ctx = NoLetter
  /\ calls = 0

NoArgs == [job |-> FALSE, job_url |-> FALSE, confirm_jd |-> FALSE, one_page |-> FALSE,
           llm |-> FALSE, review |-> FALSE, no_pdf |-> FALSE]

NoReport == [keyword_coverage |-> [coverage |-> [n |-> 0, d |-> 1], covered |-> <<>>,
                                   missing |-> <<>>, total_keywords |-> 0],
             suggestions |-> <<>>]

(* main has not been entered *)
NotStarted ==
  /\ args = NoArgs
  /\ step = "none"
  /\ ans = None
  /\ eval_report = NoReport
  /\ edits = <<>>
  /\ written = <<>>

NoPrev == [called |-> FALSE, candidate |-> Candidate(<<>>), selection |-> EmptySelection]

Init ==
  /\ candidate \in Candidates
  /\ keywords \in KeywordLists
  /\ job_text \in JobTexts
  /\ budgets \in BudgetTriples
  /\ sklearn \in BOOLEAN
  /\ pc = "ready"
  /\ selection = EmptySelection
  /\ prev = NoPrev
  /\ call = NoCall
  /\ ret = None
  /\ job = JobPosting(job_text, None, None, None, keywords)
  /\ NotAssembled
  /\ NotStarted

(* faulty variant: exp.bullets.sort(...) ranks each role's own bullet list in place *)
select_bullets_call_in_place ==
  /\ pc = "ready"
  /\ \E r \in {select_bullets(candidate, keywords, job_text, budgets)} :
       IF r.exc
       THEN pc' = "raised" /\ UNCHANGED selection
       ELSE pc' = "returned" /\ selection' = r.val
  /\ LET ranked(exp) ==
           LET sims   == sim_scores_memo[<<texts_of(exp), job_text, sklearn>>]
               sc     == bullet_scores(exp, keywords, sims.val)
               tagged == list([k \in DOMAIN exp.bullets |-> [b |-> exp.bullets[k], score |-> sc[k]]])
               st     == sort_by_score(tagged)
           IN  list([k \in DOMAIN st |-> st[k].b])
     IN  candidate' = [candidate EXCEPT !.work_experience =
                         list([i \in DOMAIN @ |-> [@[i] EXCEPT !.bullets = ranked(candidate.work_experience[i])]])]
  /\ UNCHANGED <<keywords, job_text, budgets, sklearn, prev>>
  /\ UNCHANGED scorer_vars
  /\ UNCHANGED assembler_vars
  /\ UNCHANGED cli_vars

select_bullets_call ==
  /\ pc = "ready"
  /\ \E r \in {select_bullets(candidate, keywords, job_text, budgets)} :
       IF r.exc
       THEN pc' = "raised" /\ UNCHANGED selection
       ELSE pc' = "returned" /\ selection' = r.val
  /\ UNCHANGED <<candidate, keywords, job_text, budgets, sklearn, prev>>
  /\ UNCHANGED scorer_vars
  /\ UNCHANGED assembler_vars
  /\ UNCHANGED cli_vars

call_again ==
  /\ pc = "returned"
  /\ ~prev.called
  /\ prev' = [called |-> TRUE, candidate |-> candidate, selection |-> selection]
  /\ pc' = "ready"
  /\ selection' = EmptySelection
  /\ UNCHANGED <<candidate, keywords, job_text, budgets, sklearn>>
  /\ UNCHANGED scorer_vars
  /\ UNCHANGED assembler_vars
  /\ UNCHANGED cli_vars

Next == select_bullets_call \/ call_again

Spec == Init /\ [][Next]_vars

----------------------------------------------------------------------------
(* Properties of select_bullets *)

Returned == pc = "returned"

Roles == candidate.work_experience

RoleIdx == 0..(Len(Roles) - 1)

Sel(i) == selection.selected_by_role[i]

(* budget(i) as the contract states it *)
StatedBudget(i) == IF i = 0 THEN budgets[1] ELSE IF i = 1 THEN budgets[2] ELSE budgets[3]

(* the blended score of every bullet of role i, in bullet order *)
ScoresOf(i) ==
  bullet_scores(Roles[i + 1], keywords,
                sim_scores_memo[<<texts_of(Roles[i + 1]), job_text, sklearn>>].val)

PositiveCount(i) ==
  LET sc == ScoresOf(i) IN Cardinality({k \in DOMAIN sc : RatPos(sc[k])})

PickedIdx(i) == LET sel == Sel(i) IN {sel[k].bullet_index : k \in DOMAIN sel}

(* C1: every role i keeps at most budget(i) bullets, with budget(0) = b0,   *)
(* budget(1) = b1 and budget(i) = b2 for i >= 2.                            *)
C1_AtMostBudget ==
  Returned => \A i \in RoleIdx : Len(Sel(i)) <= StatedBudget(i)

(* a third role with more positive-score bullets than b2 is cut to b2 >= 1, *)
(* while b0 and b1 differ from b2                                           *)
C1_Witness ==
  /\ Returned
  /\ Len(Roles) >= 3
  /\ budgets[3] >= 1 /\ budgets[1] # budgets[3] /\ budgets[2] # budgets[3]
  /\ PositiveCount(2) > budgets[3]
  /\ Len(Sel(2)) = budgets[3]

(* C2: within a role's list scores never increase, and entries of equal     *)
(* score are in ascending bullet_index.                                     *)
C2_RankedStable ==
  Returned =>
    \A i \in RoleIdx :
      LET sel == Sel(i)
      IN  \A k, l \in DOMAIN sel :
            k < l => /\ ~RatLess(sel[k].score, sel[l].score)
                     /\ (sel[k].score = sel[l].score
                           => sel[k].bullet_index < sel[l].bullet_index)

(* one role's list holds two entries of equal score, and another's ranks a  *)
(* later bullet ahead of an earlier one of lower score                      *)
C2_Witness ==
  /\ Returned
  /\ \E i \in RoleIdx : \E k, l \in DOMAIN Sel(i) :
       k < l /\ Sel(i)[k].score = Sel(i)[l].score
  /\ \E i \in RoleIdx : \E k, l \in DOMAIN Sel(i) :
       /\ k < l
       /\ RatLess(Sel(i)[l].score, Sel(i)[k].score)
       /\ Sel(i)[k].bullet_index > Sel(i)[l].bullet_index

(* C3: every selected bullet has a score strictly above 0.                  *)
C3_PositiveScores ==
  Returned => \A i \in RoleIdx : \A k \in DOMAIN Sel(i) : RatPos(Sel(i)[k].score)

(* a role with budget to spare leaves out a bullet whose score is 0         *)
C3_Witness ==
  /\ Returned
  /\ \E i \in RoleIdx :
       /\ Len(Sel(i)) >= 1
       /\ Len(Sel(i)) < StatedBudget(i)
       /\ \E k \in DOMAIN ScoresOf(i) : ScoresOf(i)[k] = Zero /\ (k - 1) \notin PickedIdx(i)

(* C4: a role with budget b and e positive-score bullets gets exactly       *)
(* min(b, e) bullets, and no bullet left out outscores a selected one.      *)
C4_ExactlyTopBudget ==
  Returned =>
    \A i \in RoleIdx :
      LET sc     == ScoresOf(i)
          sel    == Sel(i)
          picked == PickedIdx(i)
      IN  /\ Len(sel) = Min(StatedBudget(i), PositiveCount(i))
          /\ \A k \in DOMAIN sc : \A m \in DOMAIN sel :
               (k - 1) \notin picked => ~RatLess(sel[m].score, sc[k])

(* a role is cut to its budget and a positive-score bullet is left out      *)
C4_Witness ==
  /\ Returned
  /\ \E i \in RoleIdx :
       /\ StatedBudget(i) >= 1
       /\ PositiveCount(i) > StatedBudget(i)
       /\ Len(Sel(i)) = StatedBudget(i)
       /\ \E k \in DOMAIN ScoresOf(i) :
            /\ (k - 1) \notin PickedIdx(i)
            /\ RatPos(ScoresOf(i)[k])
            /\ RatLess(ScoresOf(i)[k], Sel(i)[1].score)

(* C5: a SelectedBullet under role r has role_index r, a valid bullet_index *)
(* and the text and source_ids of that very bullet; no bullet appears twice.*)
C5_FaithfulCopy ==
  Returned =>
    \A i \in RoleIdx :
      LET sel     == Sel(i)
          bullets == Roles[i + 1].bullets
      IN  /\ \A k \in DOMAIN sel :
               LET sb == sel[k]
               IN  /\ sb.role_index = i
                   /\ sb.bullet_index \in 0..(Len(bullets) - 1)
                   /\ sb.text = bullets[sb.bullet_index + 1].text
                   /\ sb.source_ids = bullets[sb.bullet_index + 1].source_ids
          /\ \A k, l \in DOMAIN sel : k # l => sel[k].bullet_index # sel[l].bullet_index

(* a selected bullet with two source ids whose rank is not its position in  *)
(* the role's bullet list                                                   *)
C5_Witness ==
  /\ Returned
  /\ \E i \in RoleIdx : \E k \in DOMAIN Sel(i) :
       /\ Len(Sel(i)[k].source_ids) = 2
       /\ Sel(i)[k].bullet_index # k - 1

C7_CandidateUnchanged == [][pc = "ready" => candidate' = candidate]_vars

(* the call has returned a role's bullets in an order other than the        *)
(* candidate's, and the candidate's list still starts with a bullet that    *)
(* was not ranked first                                                     *)
C7_Witness ==
  /\ Returned
  /\ \E i \in RoleIdx : \E k, l \in DOMAIN Sel(i) :
       k < l /\ Sel(i)[k].bullet_index > Sel(i)[l].bullet_index

(* C8: select_bullets never raises; every role index 0..n-1 is a key, none  *)
(* when there are no roles, and a role with no bullet scoring above 0 maps  *)
(* to the empty list.                                                       *)
C8_NeverFails ==
  /\ pc # "raised"
  /\ Returned =>
       /\ DOMAIN selection.selected_by_role = RoleIdx
       /\ Len(Roles) = 0 => selection.selected_by_role = <<>>
       /\ \A i \in RoleIdx : PositiveCount(i) = 0 => Sel(i) = <<>>

(* the call returned although the TF-IDF computation raised for a role,     *)
(* with one role without bullets and one whose bullets all score 0          *)
C8_Witness ==
  /\ Returned
  /\ \E i \in RoleIdx :
       /\ Roles[i + 1].bullets # <<>>
       /\ Truthy(job_text)
       /\ tfidf_cosine(texts_of(Roles[i + 1]), job_text, sklearn).exc
  /\ \E i \in RoleIdx : Roles[i + 1].bullets = <<>> /\ Sel(i) = <<>>
  /\ \E i \in RoleIdx : Roles[i + 1].bullets # <<>> /\ PositiveCount(i) = 0 /\ Sel(i) = <<>>

(* C9: with no keywords and no job text every bullet scores exactly 0 and   *)
(* every role's list is empty.                                              *)
C9_NoSignalNoSelection ==
  (Returned /\ keywords = <<>> /\ ~Truthy(job_text)) =>
    \A i \in RoleIdx :
      LET sc == ScoresOf(i)
      IN  /\ \A k \in DOMAIN sc : sc[k] = Zero
          /\ Sel(i) = <<>>

(* no keywords, an empty job text, and a role with skill tags, bullets and  *)
(* budget                                                                   *)
C9_Witness ==
  /\ Returned /\ keywords = <<>> /\ job_text = <<>>
  /\ \E i \in RoleIdx :
       /\ Roles[i + 1].skills # <<>>
       /\ Roles[i + 1].bullets # <<>>
       /\ StatedBudget(i) >= 1

(* The candidate that keeps role i in place, with every earlier role        *)
(* emptied of bullets and skills and every later role removed.              *)
Isolated(c, i) ==
  Candidate(list([j \in 1..(i + 1) |->
                    IF j = i + 1 THEN c.work_experience[j]
                    ELSE [c.work_experience[j] EXCEPT !.bullets = <<>>, !.skills = <<>>]]))

(* C10: the list selected for role i is the one selected when the other     *)
(* roles are emptied or removed, so it depends on no other role.            *)
C10_PerRoleIndependent ==
  Returned =>
    \A i \in RoleIdx :
      LET alone == select_bullets(Isolated(candidate, i), keywords, job_text, budgets)
      IN  ~alone.exc /\ alone.val.selected_by_role[i] = Sel(i)

(* the first role leaves budget unused while the second is cut to its own   *)
C10_Witness ==
  /\ Returned
  /\ Len(Roles) >= 2
  /\ Len(Sel(0)) < budgets[1]
  /\ budgets[2] >= 1
  /\ PositiveCount(1) > budgets[2]
  /\ Len(Sel(1)) = budgets[2]

----------------------------------------------------------------------------
(* Direct calls of the scorers: score_text_against_keywords(text, keywords) *)
(* and _tfidf_similarity(bullets, job_text), each on inputs of its own.     *)

ScorerTexts == {<<>>, tBlank, tDots, tAwsAws, tAwsTeam, tLedAwsCost, tMigration}

(* keywords are single tokens, as extract_keywords yields them; a token of  *)
(* punctuation only is stripped to the empty keyword                        *)
ScorerKeywords == {<<>>, kAws, kCost, kMigration, kAwsPunct}

ScoreCalls ==
  {[fn |-> "score_text_against_keywords", text |-> t, keywords |-> k] :
     t \in ScorerTexts, k \in SeqsUpTo(ScorerKeywords, MaxKeywords)}

ScorerBulletTexts == {<<>>, tX, tDots, tAwsTeam, tLedAwsCost}

ScorerJobTexts == {<<>>, tDots, jXY, jAwsCostTeam}

TfidfCalls ==
  {[fn |-> "_tfidf_similarity", bullets |-> b, job_text |-> j] :
     b \in SeqsUpTo(ScorerBulletTexts, MaxBullets), j \in ScorerJobTexts}

ScorerInit ==
  /\ call \in ScoreCalls \cup TfidfCalls
  /\ sklearn \in BOOLEAN
  /\ ret = None
  /\ pc = "ready"
  /\ candidate = Candidate(<<>>)
  /\ keywords = <<>>
  /\ job_text = None
  /\ budgets = <<0, 0, 0>>
  /\ selection = EmptySelection
  /\ prev = NoPrev
  /\ job = JobPosting(job_text, None, None, None, keywords)
  /\ NotAssembled
  /\ NotStarted

score_text_against_keywords_call ==
  /\ pc = "ready"
  /\ call.fn = "score_text_against_keywords"
  /\ ret' = score_text_against_keywords(call.text, call.keywords)
  /\ pc' = "returned"
  /\ UNCHANGED <<candidate, keywords, job_text, budgets, sklearn, selection, prev, call>>
  /\ UNCHANGED assembler_vars
  /\ UNCHANGED cli_vars

tfidf_similarity_call ==
  /\ pc = "ready"
  /\ call.fn = "_tfidf_similarity"
  /\ \E r \in {tfidf_similarity(call.bullets, call.job_text, sklearn)} :
       IF r.exc
       THEN pc' = "raised" /\ UNCHANGED ret
       ELSE pc' = "returned" /\ ret' = r.val
  /\ UNCHANGED <<candidate, keywords, job_text, budgets, sklearn, selection, prev, call>>
  /\ UNCHANGED assembler_vars
  /\ UNCHANGED cli_vars

ScorerNext == score_text_against_keywords_call \/ tfidf_similarity_call

ScorerSpec == ScorerInit /\ [][ScorerNext]_vars

----------------------------------------------------------------------------
(* Properties of the scorers *)

ScoreReturned == pc = "returned" /\ call.fn = "score_text_against_keywords"

(* T: the whitespace-delimited tokens of a text, lowercased and stripped of  *)
(* surrounding punctuation                                                   *)
StatedTokens(text) == {strip(lower(t), Punct) : t \in Range(split(text))}

(* K: the keywords, lowercased and stripped of surrounding punctuation       *)
StatedKeywords(kwlist) == {strip(lower(k), Punct) : k \in Range(kwlist)}

Hits(text, kwlist) == Cardinality(StatedTokens(text) \cap StatedKeywords(kwlist))

(* 0.7 * base + 0.3 * density *)
StatedScore(hits, T, K) ==
  RatAdd(RatScale(Rat(hits, Max(1, Cardinality(K))), 7, 10),
         RatScale(Rat(hits, Max(1, Cardinality(T))), 3, 10))

(* C11: the keyword score is 0.7*base + 0.3*density over the token set T and *)
(* the keyword set K, 0 when T or K is empty, and unchanged when tokens or   *)
(* keywords are repeated.                                                    *)
C11_KeywordScore ==
  ScoreReturned =>
    /\ ret = IF StatedTokens(call.text) = {} \/ StatedKeywords(call.keywords) = {}
             THEN Zero
             ELSE StatedScore(Hits(call.text, call.keywords),
                              StatedTokens(call.text), StatedKeywords(call.keywords))
    /\ ret = score_text_against_keywords(call.text \o <<" ">> \o call.text,
                                         call.keywords \o call.keywords)

(* a keyword is listed twice, one written with a capital and a comma hits,   *)
(* another misses, and the text has tokens that are no keyword               *)
C11_Witness ==
  /\ ScoreReturned
  /\ Len(call.keywords) > Cardinality(StatedKeywords(call.keywords))
  /\ kAwsPunct \in Range(call.keywords)
  /\ kAws \in StatedTokens(call.text)
  /\ Hits(call.text, call.keywords) < Cardinality(StatedKeywords(call.keywords))
  /\ Hits(call.text, call.keywords) < Cardinality(StatedTokens(call.text))
  /\ RatPos(ret)

(* C13: when the keyword list is not empty and every keyword is a           *)
(* normalized token of the text, the keyword score is above 0.5.            *)
C13_AllKeywordsHit ==
  (/\ ScoreReturned
   /\ call.keywords # <<>>
   /\ StatedKeywords(call.keywords) \subseteq StatedTokens(call.text))
    => RatLess(Rat(1, 2), ret)

(* "Led migration to AWS, reducing cost 20%" against aws, cost, migration:   *)
(* 7 tokens, 3 of 3 keywords hit, 0.7 + 0.3 * 3/7                            *)
C13_Witness ==
  /\ ScoreReturned
  /\ call.text = tMigration
  /\ call.keywords = <<kAws, kCost, kMigration>>
  /\ ret = Rat(29, 35)

TfidfCalled == call.fn = "_tfidf_similarity"

(* the TF-IDF computation is unavailable or fails on the call's arguments *)
TfidfFails == TfidfCalled /\ tfidf_cosine(call.bullets, call.job_text, sklearn).exc

(* |B \cap J| / |B \cup J|, and 0 when both sets are empty *)
StatedJaccard(B, J) ==
  IF B \cup J = {} THEN Zero ELSE Rat(Cardinality(B \cap J), Cardinality(B \cup J))

(* C14: when TF-IDF is unavailable or fails, _tfidf_similarity does not      *)
(* raise and returns, per bullet and in bullet order, the Jaccard similarity *)
(* of the bullet's tokens and the job text's tokens, 0 when both are empty.  *)
C14_JaccardFallback ==
  TfidfFails =>
    /\ pc # "raised"
    /\ pc = "returned" =>
         /\ Len(ret) = Len(call.bullets)
         /\ \A i \in DOMAIN ret :
              ret[i] = StatedJaccard(StatedTokens(call.bullets[i]),
                                     StatedTokens(call.job_text))

(* scikit-learn is importable but the vocabulary is empty; of two bullets    *)
(* one shares a token with the job text and the other none                   *)
C14_Witness ==
  /\ TfidfFails
  /\ pc = "returned"
  /\ sklearn
  /\ Len(ret) = 2
  /\ RatPos(ret[1]) /\ RatLess(ret[1], Rat(1, 1))
  /\ ret[2] = Zero

----------------------------------------------------------------------------
(* The blended score, under Spec *)

(* semantic_score of bullet b (1-based) of role i: 0 when the job text is   *)
(* absent or the role has no bullets                                        *)
StatedSemantic(i, b) ==
  IF ~Truthy(job_text) \/ Roles[i + 1].bullets = <<>>
  THEN Zero
  ELSE sim_scores_memo[<<texts_of(Roles[i + 1]), job_text, sklearn>>].val[b]

StatedKeywordScore(i, b) == keyword_score_memo[<<Roles[i + 1].bullets[b].text, keywords>>]

(* the distinct skill tags of role i that occur in the keyword list *)
MatchedSkills(i) == Range(Roles[i + 1].skills) \cap Range(keywords)

(* C12: a bullet's score is 0.6*semantic_score + 0.4*keyword_score +        *)
(* 0.05*|role.skills \cap keywords|.                                        *)
C12_BlendedScore ==
  Returned =>
    \A i \in RoleIdx : \A k \in DOMAIN Sel(i) :
      \A b \in {Sel(i)[k].bullet_index + 1} :
        Sel(i)[k].score =
          RatAdd(RatAdd(RatScale(StatedSemantic(i, b), 6, 10),
                        RatScale(StatedKeywordScore(i, b), 4, 10)),
                 Rat(5 * Cardinality(MatchedSkills(i)), 100))

(* a selected bullet with a semantic score, a different keyword score and a *)
(* matched skill tag, in a role that also has an unmatched tag, the keyword *)
(* list naming a keyword twice                                              *)
C12_Witness ==
  /\ Returned
  /\ Len(keywords) > Cardinality(Range(keywords))
  /\ \E i \in RoleIdx : \E k \in DOMAIN Sel(i) :
       \E b \in {Sel(i)[k].bullet_index + 1} :
         /\ RatPos(StatedSemantic(i, b))
         /\ RatPos(StatedKeywordScore(i, b))
         /\ StatedSemantic(i, b) # StatedKeywordScore(i, b)
         /\ Cardinality(MatchedSkills(i)) = 1
         /\ Len(Roles[i + 1].skills) = 2

----------------------------------------------------------------------------
(* Context assembler (src/src/ats_builder/generate.py): the resume context  *)

(* selection.selected_by_role.get(idx, []) *)
picked_for(sel, idx) ==
  IF idx \in DOMAIN sel.selected_by_role THEN sel.selected_by_role[idx] ELSE <<>>

context_bullets(picked) ==
  list([k \in DOMAIN picked |-> [text |-> picked[k].text, source_ids |-> picked[k].source_ids]])

experience_block(exp, picked) ==
  [company |-> exp.company, role |-> exp.role, start |-> exp.start, end |-> exp.end,
   bullets |-> context_bullets(picked)]

(* faulty variant: roles without a selected bullet are left out *)
experiences_with_bullets_only(cand, sel) ==
  SelectSeq(list([i \in DOMAIN cand.work_experience |->
                    experience_block(cand.work_experience[i], picked_for(sel, i - 1))]),
            LAMBDA e : e.bullets # <<>>)

(* the loop over enumerate(candidate.work_experience) *)
experiences(cand, sel) ==
  list([i \in DOMAIN cand.work_experience |->
          experience_block(cand.work_experience[i], picked_for(sel, i - 1))])

(* list(dict.fromkeys(candidate.skills_hard + candidate.skills_soft)) *)
context_skills(cand) == fromkeys(cand.skills_hard \o cand.skills_soft, <<>>)

(* faulty variant: the bullet's index is written where the role's belongs *)
trace_entry_bullet_index(ridx, sb) ==
  [text |-> sb.text, source_ids |-> sb.source_ids, role_index |-> sb.bullet_index,
   score |-> sb.score]

trace_entry(ridx, sb) ==
  [text |-> sb.text, source_ids |-> sb.source_ids, role_index |-> ridx, score |-> sb.score]

trace_of_role(ridx, lst) == list([k \in DOMAIN lst |-> trace_entry(ridx, lst[k])])

(* for ridx, lst in selected_by_role.items() for sb in lst: the keys come in *)
(* insertion order, which select_bullets makes 0, 1, 2, ...                 *)
RECURSIVE trace_from(_, _)
trace_from(by_role, ridx) ==
  IF ridx \notin DOMAIN by_role THEN <<>>
  ELSE trace_of_role(ridx, by_role[ridx]) \o trace_from(by_role, ridx + 1)

context_education(cand) ==
  list([i \in DOMAIN cand.education |->
          [institution |-> cand.education[i].institution, degree |-> cand.education[i].degree,
           start |-> cand.education[i].start, end |-> cand.education[i].end]])

build_resume_context(cand, jb, sel) ==
  [identity    |-> [name |-> cand.identity.name, email |-> cand.identity.email,
                    phone |-> cand.identity.phone, location |-> cand.identity.location,
                    links |-> cand.identity.links],
   experiences |-> experiences(cand, sel),
   education   |-> context_education(cand),
   skills      |-> context_skills(cand),
   trace       |-> [bullets |-> trace_from(sel.selected_by_role, 0)],
   job         |-> [title |-> jb.title, company |-> jb.company, location |-> jb.location,
                    keywords |-> jb.keywords]]

----------------------------------------------------------------------------
(* Inputs of the assembler *)

kPyLower == <<"p","y">>

kSql == <<"S","Q","L">>

kGrit == <<"g","r","i","t">>

tDev == <<"D","e","v">>

tInitech == <<"I","n","i","t","e","c","h">>

(* <<skills_hard, skills_soft>> *)
SkillProfiles ==
  { <<<<>>, <<>>>>,
    <<<<kPy, kSql>>, <<kPy, kGrit>>>>,
    <<<<kPy, kSql>>, <<kPyLower>>>> }

AssemblerCandidates ==
  {[c EXCEPT !.skills_hard = p[1], !.skills_soft = p[2]] : c \in Candidates, p \in SkillProfiles}

(* <<title, company, location>> *)
JobHeaders == {<<None, None, None>>, <<tDev, tInitech, "Remote">>}

(* budgets = (5, 3, 1) if args.one_page else (6, 4, 2) *)
CliBudgets == {<<5, 3, 1>>, <<6, 4, 2>>}

----------------------------------------------------------------------------
(* The command line's sequence: select_bullets, then build_resume_context   *)
(* and build_cover_letter on its result (cli.py, main).                     *)
(* build_resume_context may be called a second time on the same arguments.  *)

AssemblerInit ==
  /\ candidate \in AssemblerCandidates
  /\ keywords \in KeywordLists
  /\ job_text \in {<<>>, jAwsCostTeam}
  /\ \E h \in JobHeaders : job = JobPosting(job_text, h[1], h[2], h[3], keywords)
  /\ budgets \in CliBudgets
  /\ sklearn \in BOOLEAN
  /\ pc = "ready"
  /\ selection = EmptySelection
  /\ prev = NoPrev
  /\ call = NoCall
  /\ ret = None
  /\ NotAssembled
  /\ NotStarted

(* faulty variant: selected_by_role.pop(idx, []) takes each role's list out *)
(* of the selection                                                         *)
build_resume_context_call_popping ==
  /\ pc = "returned"
  /\ calls < 2
  /\ resume_ctx' = build_resume_context(candidate, job, selection)
  /\ selection' = [selection EXCEPT !.selected_by_role = <<>>]
  /\ calls' = calls + 1
  /\ UNCHANGED <<candidate, keywords, job_text, budgets, sklearn, pc, prev,
                 job, personal_notes, letter_ctx>>
  /\ UNCHANGED scorer_vars
  /\ UNCHANGED cli_vars

build_resume_context_call ==
  /\ pc = "returned"
  /\ calls < 2
  /\ resume_ctx' = build_resume_context(candidate, job, selection)
  /\ calls' = calls + 1
  /\ UNCHANGED <<candidate, keywords, job_text, budgets, sklearn, pc, selection, prev,
                 job, personal_notes, letter_ctx>>
  /\ UNCHANGED scorer_vars
  /\ UNCHANGED cli_vars

----------------------------------------------------------------------------
(* Context assembler: the cover letter.  The typographic apostrophe and the *)
(* non-breaking hyphen of the source are the characters "U+2019" and        *)
(* "U+2011".                                                                *)

sReaching ==
  <<"I","'","m"," ","r","e","a","c","h","i","n","g"," ","o","u","t"," ","a",
    "b","o","u","t"," ","t","h","e"," ">>

sAt ==
  <<" ","a","t"," ">>

sCentered ==
  <<"M","y"," ","r","e","c","e","n","t"," ","w","o","r","k"," ","h","a","s",
    " ","c","e","n","t","e","r","e","d"," ","o","n"," ">>

sBring ==
  <<" ","a","n","d"," ","I"," ","t","e","n","d"," ","t","o"," ","b","r","i",
    "n","g"," ">>

sCross ==
  <<" ","t","o"," ","c","r","o","s","s","U+2011","f","u","n","c","t","i",
    "o","n","a","l"," ","w","o","r","k",".">>

sExamples ==
  <<"A"," ","f","e","w"," ","e","x","a","m","p","l","e","s"," ","o","f"," ",
    "t","h","e"," ","k","i","n","d"," ","o","f"," ","w","o","r","k"," ","I",
    " ","d","o",":"," ">>

sGlad ==
  <<"I","U+2019","m"," ","g","l","a","d"," ","t","o"," ","s","h","a","r",
    "e"," ","e","x","a","m","p","l","e","s"," ","o","f"," ","r","e","c","e",
    "n","t"," ","p","r","o","j","e","c","t","s"," ","o","n"," ","r","e","q",
    "u","e","s","t",".">>

sInvitation ==
  <<"I","f"," ","t","h","e"," ","t","e","a","m"," ","i","s"," ","e","x","p",
    "l","o","r","i","n","g"," ","s","o","l","u","t","i","o","n","s"," ","i",
    "n"," ","t","h","i","s"," ","a","r","e","a",","," ","I","U+2019","d",
    " ","v","a","l","u","e"," ","a"," ","c","o","n","v","e","r","s","a","t",
    "i","o","n"," ","t","o"," ","c","o","m","p","a","r","e"," ","n","o","t",
    "e","s"," ","a","n","d"," ","s","e","e"," ","w","h","e","r","e"," ","I",
    " ","c","a","n"," ","h","e","l","p",".">>

sHello ==
  <<"H","e","l","l","o",",">>

sRegards ==
  <<"B","e","s","t"," ","r","e","g","a","r","d","s",",","\n">>

sYourTeam ==
  <<"y","o","u","r"," ","t","e","a","m">>

sThisRole ==
  <<"t","h","i","s"," ","r","o","l","e">>

(* x or d *)
or_default(x, d) == IF Truthy(x) THEN x ELSE d

(* sep.join(xs) *)
RECURSIVE join(_, _)
join(sep, xs) ==
  IF xs = <<>> THEN <<>>
  ELSE IF Len(xs) = 1 THEN xs[1]
  ELSE xs[1] \o sep \o join(sep, Tail(xs))

(* sorted(selection.selected_by_role.keys()) *)
RECURSIVE sorted_keys(_)
sorted_keys(S) ==
  IF S = {} THEN <<>>
  ELSE <<CHOOSE x \in S : \A y \in S : x <= y>>
       \o sorted_keys(S \ {CHOOSE x \in S : \A y \in S : x <= y})

RECURSIVE extend_all(_, _)
extend_all(by_role, keys) ==
  IF keys = <<>> THEN <<>>
  ELSE list([k \in DOMAIN by_role[Head(keys)] |-> by_role[Head(keys)][k].text])
       \o extend_all(by_role, Tail(keys))

all_bullets(sel) == extend_all(sel.selected_by_role, sorted_keys(DOMAIN sel.selected_by_role))

(* faulty variant: all_bullets[-3:], the last three *)
highlights_last_three(sel) ==
  SubSeq(all_bullets(sel), Max(1, Len(all_bullets(sel)) - 2), Len(all_bullets(sel)))

(* all_bullets[:3] *)
highlights(sel) == slice_to(all_bullets(sel), 3)

intro(title, company, lead_skills, soft) ==
  sReaching \o title \o sAt \o company \o <<".", " ">>
  \o sCentered \o join(<<",", " ">>, lead_skills)
  \o (IF soft # <<>> THEN sBring \o join(<<",", " ">>, soft) \o sCross ELSE <<".">>)

middle(hl) ==
  IF hl # <<>> THEN sExamples \o join(<<";", " ">>, hl) \o <<".">> ELSE sGlad

(* if personal_notes: middle = middle + " " + personal_notes.strip() *)
(* faulty variant: the notes are appended as given, not stripped *)
with_notes_as_given(mid, notes) ==
  IF Truthy(notes) THEN mid \o <<" ">> \o notes ELSE mid

with_notes(mid, notes) ==
  IF Truthy(notes) THEN mid \o <<" ">> \o strip(notes, Whitespace) ELSE mid

build_cover_letter(cand, jb, sel, notes) ==
  [greeting   |-> sHello,
   paragraphs |-> << intro(or_default(jb.title, sThisRole), or_default(jb.company, sYourTeam),
                           slice_to(cand.skills_hard, 3), slice_to(cand.skills_soft, 2)),
                     with_notes(middle(highlights(sel)), notes),
                     sInvitation >>,
   closing    |-> sRegards \o cand.identity.name]

tThanks == <<" ","T","h","a","n","k","s","!"," ">>

(* personal_notes: None by default, else the text of the notes file or the  *)
(* line typed at the prompt                                                 *)
NotesSet == {None, <<>>, tThanks}

build_cover_letter_call ==
  /\ pc = "returned"
  /\ calls >= 1
  /\ letter_ctx = NoLetter
  /\ \E notes \in NotesSet :
       /\ personal_notes' = notes
       /\ letter_ctx' = build_cover_letter(candidate, job, selection, notes)
  /\ UNCHANGED <<candidate, keywords, job_text, budgets, sklearn, pc, selection, prev,
                 job, resume_ctx, calls>>
  /\ UNCHANGED scorer_vars
  /\ UNCHANGED cli_vars

AssemblerNext ==
  \/ select_bullets_call
  \/ build_resume_context_call
  \/ build_cover_letter_call

AssemblerSpec == AssemblerInit /\ [][AssemblerNext]_vars

----------------------------------------------------------------------------
(* Properties of build_resume_context, under AssemblerSpec *)

Built == calls >= 1

Blocks == resume_ctx.experiences

Trace == resume_ctx.trace.bullets

(* C15: one experience block per role, in the candidate's order, with the   *)
(* role's company, role, start and end; a role without selected bullets has *)
(* an empty bullet list; a role's bullets have the order, text and          *)
(* source_ids of selected_by_role at its index.                             *)
C15_ExperienceBlocks ==
  Built =>
    /\ Len(Blocks) = Len(Roles)
    /\ \A i \in RoleIdx :
         /\ Blocks[i + 1].company = Roles[i + 1].company
         /\ Blocks[i + 1].role = Roles[i + 1].role
         /\ Blocks[i + 1].start = Roles[i + 1].start
         /\ Blocks[i + 1].end = Roles[i + 1].end
         /\ Len(Blocks[i + 1].bullets) = Len(Sel(i))
         /\ \A k \in DOMAIN Sel(i) :
              /\ Blocks[i + 1].bullets[k].text = Sel(i)[k].text
              /\ Blocks[i + 1].bullets[k].source_ids = Sel(i)[k].source_ids

(* a role without selected bullets stands before one whose bullets were     *)
(* ranked out of their original order                                       *)
C15_Witness ==
  /\ Built
  /\ \E i, j \in RoleIdx :
       /\ i < j
       /\ Sel(i) = <<>>
       /\ Blocks[i + 1].bullets = <<>>
       /\ \E k, l \in DOMAIN Sel(j) : k < l /\ Sel(j)[k].bullet_index > Sel(j)[l].bullet_index

(* first occurrences, two skills being the same when they differ only in    *)
(* case                                                                     *)
RECURSIVE FirstIgnoringCase(_, _)
FirstIgnoringCase(xs, acc) ==
  IF xs = <<>> THEN acc
  ELSE FirstIgnoringCase(Tail(xs),
         IF \E a \in Range(acc) : lower(a) = lower(Head(xs)) THEN acc
         ELSE Append(acc, Head(xs)))

(* C16: the skills list is hard + soft skills with duplicates removed       *)
(* case-insensitively, first occurrence kept, order preserved.              *)
C16_SkillsIgnoringCase ==
  Built =>
    resume_ctx.skills = FirstIgnoringCase(candidate.skills_hard \o candidate.skills_soft, <<>>)

(* the position before the first trace entry of role i *)
RECURSIVE Offset(_)
Offset(i) == IF i = 0 THEN 0 ELSE Offset(i - 1) + Len(Sel(i - 1))

(* how often the pair (role index, text) occurs in the trace, and under the *)
(* experiences                                                              *)
InTrace(i, text) ==
  Cardinality({p \in DOMAIN Trace : Trace[p].role_index = i /\ Trace[p].text = text})

InBlocks(i, text) ==
  Cardinality({k \in DOMAIN Blocks[i + 1].bullets : Blocks[i + 1].bullets[k].text = text})

(* C17: the trace has one entry per selected bullet, with its text,         *)
(* source_ids, role index and score, by ascending role index and in ranked  *)
(* order within a role; its (role index, text) pairs are, with              *)
(* multiplicity, those of the bullets under experiences.                    *)
C17_TraceMatchesSelection ==
  Built =>
    /\ Len(Trace) = Offset(Len(Roles))
    /\ \A i \in RoleIdx : \A k \in DOMAIN Sel(i) :
         Trace[Offset(i) + k] =
           [text |-> Sel(i)[k].text, source_ids |-> Sel(i)[k].source_ids,
            role_index |-> i, score |-> Sel(i)[k].score]
    /\ \A p \in DOMAIN Trace : Trace[p].role_index \in RoleIdx
    /\ \A i \in RoleIdx : \A text \in BulletTexts : InTrace(i, text) = InBlocks(i, text)

(* bullets of two roles are traced, the second role's after the first's,    *)
(* one text twice under the same role, and a bullet whose index in its role *)
(* is not the role's index                                                  *)
C17_Witness ==
  /\ Built
  /\ \E i, j \in RoleIdx : i < j /\ Sel(i) # <<>> /\ Sel(j) # <<>>
  /\ \E i \in RoleIdx : \E text \in BulletTexts : InTrace(i, text) = 2
  /\ \E p \in DOMAIN Trace :
       \E k \in DOMAIN Sel(Trace[p].role_index) :
         /\ Sel(Trace[p].role_index)[k].text = Trace[p].text
         /\ Sel(Trace[p].role_index)[k].bullet_index # Trace[p].role_index

(* C18: a call of build_resume_context changes none of its three inputs,    *)
(* and a second call on them returns a context equal to the first.          *)
C18_PureAssembly ==
  [][(pc = "returned" /\ calls' = calls + 1) =>
       /\ candidate' = candidate
       /\ job' = job
       /\ selection' = selection
       /\ Built => resume_ctx' = resume_ctx]_vars

(* the second call has returned, for a selection with bullets *)
C18_Witness ==
  /\ calls = 2
  /\ Trace # <<>>
  /\ \E i \in RoleIdx : Blocks[i + 1].bullets # <<>>

----------------------------------------------------------------------------
(* Properties of build_cover_letter, under AssemblerSpec *)

LetterBuilt == letter_ctx # NoLetter

Paragraphs == letter_ctx.paragraphs

(* the selected bullet texts from role i on, by ascending role index and in *)
(* ranked order within a role                                               *)
RECURSIVE SelectedTextsFrom(_)
SelectedTextsFrom(i) ==
  IF i >= Len(Roles) THEN <<>>
  ELSE [k \in DOMAIN Sel(i) |-> Sel(i)[k].text] \o SelectedTextsFrom(i + 1)

(* the first k of the texts, separated by "; " *)
RECURSIVE Listed(_, _)
Listed(texts, k) ==
  IF k = 0 THEN <<>>
  ELSE IF k = 1 THEN texts[1]
  ELSE Listed(texts, k - 1) \o <<";", " ">> \o texts[k]

(* what follows the middle paragraph when personal notes are supplied *)
NotesAppended ==
  IF Truthy(personal_notes) THEN <<" ">> \o strip(personal_notes, Whitespace) ELSE <<>>

IsPrefix(pre, str) == Len(pre) <= Len(str) /\ SubSeq(str, 1, Len(pre)) = pre

(* C19: three paragraphs, opening, middle, closing; with at least one       *)
(* selected bullet the middle paragraph lists the first min(3, total)       *)
(* selected texts, by ascending role index and ranked order, and no other.  *)
C19_ThreeParagraphs ==
  LetterBuilt =>
    /\ Len(Paragraphs) = 3
    /\ IsPrefix(sReaching, Paragraphs[1])
    /\ Paragraphs[3] = sInvitation
    /\ SelectedTextsFrom(0) # <<>> =>
         Paragraphs[2] = sExamples
                         \o Listed(SelectedTextsFrom(0), Min(3, Len(SelectedTextsFrom(0))))
                         \o <<".">> \o NotesAppended

(* more than three bullets are selected and the first role has fewer than   *)
(* three of them, so the highlights come from two roles and stop short      *)
C19_Witness ==
  /\ LetterBuilt
  /\ Len(SelectedTextsFrom(0)) > 3
  /\ Len(Sel(0)) \in 1..2
  /\ Truthy(personal_notes)

sGladStated ==
  <<"I","'","m"," ","g","l","a","d"," ","t","o"," ","s","h","a","r","e"," ",
    "e","x","a","m","p","l","e","s"," ","o","f"," ","r","e","c","e","n","t",
    " ","p","r","o","j","e","c","t","s"," ","o","n"," ","r","e","q","u","e",
    "s","t",".">>

(* C20: with no selected bullet and no personal notes the middle paragraph  *)
(* is "I'm glad to share examples of recent projects on request.",          *)
(* character for character.                                                 *)
C20_FallbackVerbatim ==
  (LetterBuilt /\ SelectedTextsFrom(0) = <<>> /\ personal_notes = None)
    => Paragraphs[2] = sGladStated

IsSuffix(suf, str) ==
  Len(suf) <= Len(str) /\ SubSeq(str, Len(str) - Len(suf) + 1, Len(str)) = suf

(* the highlights sentence, or the fallback sentence without a selected bullet *)
StatedSentence ==
  IF SelectedTextsFrom(0) = <<>> THEN sGlad
  ELSE sExamples \o Listed(SelectedTextsFrom(0), Min(3, Len(SelectedTextsFrom(0)))) \o <<".">>

(* the opening and the closing paragraph are the same whatever the notes *)
NotesIndependent ==
  \A n \in NotesSet :
    /\ build_cover_letter(candidate, job, selection, n).paragraphs[1] = Paragraphs[1]
    /\ build_cover_letter(candidate, job, selection, n).paragraphs[3] = Paragraphs[3]

(* C21 as stated: supplied notes end the middle paragraph unchanged,        *)
(* leading and trailing characters included; without notes the middle       *)
(* paragraph is the sentence alone; opening and closing ignore the notes.   *)
C21_NotesVerbatim ==
  LetterBuilt =>
    /\ Truthy(personal_notes) =>
         /\ IsSuffix(personal_notes, Paragraphs[2])
         /\ IsPrefix(StatedSentence, Paragraphs[2])
    /\ ~Truthy(personal_notes) => Paragraphs[2] = StatedSentence
    /\ NotesIndependent

(* C21, amended: supplied notes follow the sentence after one space with    *)
(* their leading and trailing whitespace removed; without notes the middle  *)
(* paragraph is the sentence alone; opening and closing ignore the notes.   *)
C21_NotesStripped ==
  LetterBuilt =>
    /\ Truthy(personal_notes) =>
         Paragraphs[2] = StatedSentence \o <<" ">> \o strip(personal_notes, Whitespace)
    /\ ~Truthy(personal_notes) => Paragraphs[2] = StatedSentence
    /\ NotesIndependent

(* notes that begin and end with whitespace were supplied *)
C21_Witness ==
  /\ LetterBuilt
  /\ Truthy(personal_notes)
  /\ strip(personal_notes, Whitespace) # personal_notes
  /\ SelectedTextsFrom(0) # <<>>

----------------------------------------------------------------------------
(* Further properties of select_bullets, under Spec *)

(* the position of the first occurrence of x in xs *)
FirstIndex(xs, x) == CHOOSE i \in DOMAIN xs : xs[i] = x /\ \A j \in 1..(i - 1) : xs[j] # x

(* C28: the keywords of the SelectionResult are the input keywords without  *)
(* exact duplicates, each at the place of its first occurrence, and nothing *)
(* that is not in the input.                                                *)
C28_KeywordsDeduplicated ==
  Returned =>
    /\ Range(selection.keywords) = Range(keywords)
    /\ \A a, b \in DOMAIN selection.keywords :
         a < b => FirstIndex(keywords, selection.keywords[a])
                    < FirstIndex(keywords, selection.keywords[b])

(* the input names a keyword twice, with another keyword in between *)
C28_Witness ==
  /\ Returned
  /\ \E a, b, c \in DOMAIN keywords :
       a < b /\ b < c /\ keywords[a] = keywords[c] /\ keywords[a] # keywords[b]

(* 0.6*semantic_score + 0.4*keyword_score of bullet b of role i, the score  *)
(* before the skill boost                                                   *)
StatedBase(i, b) ==
  RatAdd(RatScale(StatedSemantic(i, b), 6, 10), RatScale(StatedKeywordScore(i, b), 4, 10))

PickBase(i, k) == StatedBase(i, Sel(i)[k].bullet_index + 1)

(* C29: the boost is the same for every bullet of a role and leaves their   *)
(* relative order as the unboosted scores rank them; a role with a skill    *)
(* tag in the keyword list has every bullet scored above 0 and returns      *)
(* min(budget, number of bullets) bullets.                                  *)
C29_BoostPerRole ==
  Returned =>
    \A i \in RoleIdx :
      /\ \A k, l \in DOMAIN Sel(i) :
           /\ RatAdd(Sel(i)[k].score, PickBase(i, l)) = RatAdd(Sel(i)[l].score, PickBase(i, k))
           /\ k < l => \/ RatLess(PickBase(i, l), PickBase(i, k))
                       \/ /\ PickBase(i, l) = PickBase(i, k)
                          /\ Sel(i)[k].bullet_index < Sel(i)[l].bullet_index
      /\ MatchedSkills(i) # {} =>
           /\ \A b \in DOMAIN ScoresOf(i) : RatPos(ScoresOf(i)[b])
           /\ Len(Sel(i)) = Min(StatedBudget(i), Len(Roles[i + 1].bullets))

(* a role with a matched skill tag returns a bullet that has neither a      *)
(* keyword nor a semantic score, ranked after one that has                  *)
C29_Witness ==
  /\ Returned
  /\ \E i \in RoleIdx :
       /\ MatchedSkills(i) # {}
       /\ \E k, l \in DOMAIN Sel(i) :
            /\ k < l
            /\ RatPos(PickBase(i, k))
            /\ PickBase(i, l) = Zero
            /\ Sel(i)[l].bullet_index < Sel(i)[k].bullet_index

----------------------------------------------------------------------------
(* _merge_candidate (docs_to_json.py): the parsed documents of a folder are *)
(* merged into one candidate profile.  A piece is what parse_resume_text    *)
(* returns: work_experience (company, role, start, end, bullet texts),      *)
(* skills and education.  All fields are character sequences here.          *)

py_str(x) == IF x = None THEN <<"N","o","n","e">> ELSE x

(* sub in s *)
Contains(sub, s) ==
  \E i \in 0..(Len(s) - Len(sub)) : SubSeq(s, i + 1, i + Len(sub)) = sub

(* x.strip().lower() *)
strip_lower(x) == lower(strip(x, Whitespace))

RECURSIVE dedup_list(_, _)
dedup_list(items, out) ==
  IF items = <<>> THEN out
  ELSE dedup_list(Tail(items),
                  IF strip_lower(Head(items)) # <<>>
                     /\ strip_lower(Head(items)) \notin {strip_lower(x) : x \in Range(out)}
                  THEN Append(out, strip(Head(items), Whitespace))
                  ELSE out)

(* one experience of a piece, its bullets tagged with the piece's source id *)
tagged_experience(exp, sid) ==
  [company |-> exp.company, role |-> exp.role, start |-> exp.start, end |-> exp.end,
   bullets |-> [k \in DOMAIN exp.bullets |-> [text |-> exp.bullets[k], source_ids |-> <<sid>>]],
   skills |-> <<>>, tools |-> <<>>]

tagged_experiences(piece, sid) ==
  [k \in DOMAIN piece.work_experience |-> tagged_experience(piece.work_experience[k], sid)]

(* the loop over zip(pieces, source_ids), from pair i on: the experiences   *)
RECURSIVE collect_experience(_, _, _)
collect_experience(pieces, source_ids, i) ==
  IF i > Min(Len(pieces), Len(source_ids)) THEN <<>>
  ELSE tagged_experiences(pieces[i], source_ids[i]) \o collect_experience(pieces, source_ids, i + 1)

RECURSIVE collect_skills(_, _, _)
collect_skills(pieces, source_ids, i) ==
  IF i > Min(Len(pieces), Len(source_ids)) THEN <<>>
  ELSE pieces[i].skills \o collect_skills(pieces, source_ids, i + 1)

RECURSIVE collect_education(_, _, _)
collect_education(pieces, source_ids, i) ==
  IF i > Min(Len(pieces), Len(source_ids)) THEN <<>>
  ELSE pieces[i].education \o collect_education(pieces, source_ids, i + 1)

role_key(exp) ==
  join(<<"|">>, <<exp.company, exp.role, py_str(exp.start), py_str(exp.end)>>)

(* the bullets of bs appended to a slot's bullets unless empty or already   *)
(* there, compared stripped and lowercased                                  *)
RECURSIVE add_bullets(_, _)
add_bullets(slot_bullets, bs) ==
  IF bs = <<>> THEN slot_bullets
  ELSE add_bullets(IF strip_lower(Head(bs).text) # <<>>
                      /\ strip_lower(Head(bs).text)
                           \notin {strip_lower(b.text) : b \in Range(slot_bullets)}
                   THEN Append(slot_bullets, Head(bs))
                   ELSE slot_bullets,
                   Tail(bs))

(* merged_roles.setdefault(key, {**exp, "bullets": []}) and the bullet loop; *)
(* merged_roles is the sequence of its values in insertion order            *)
coalesce_into(merged_roles, exp, at) ==
  IF at = {}
  THEN Append(merged_roles, [exp EXCEPT !.bullets = add_bullets(<<>>, exp.bullets)])
  ELSE [k \in DOMAIN merged_roles |->
          IF k \in at
          THEN [merged_roles[k] EXCEPT !.bullets = add_bullets(@, exp.bullets)]
          ELSE merged_roles[k]]

RECURSIVE coalesce(_, _)
coalesce(work_experience, merged_roles) ==
  IF work_experience = <<>> THEN merged_roles
  ELSE coalesce(Tail(work_experience),
                coalesce_into(merged_roles, Head(work_experience),
                              {k \in DOMAIN merged_roles :
                                 role_key(merged_roles[k]) = role_key(Head(work_experience))}))

education_key(ed) ==
  join(<<"|">>, <<strip_lower(IF Truthy(ed.institution) THEN ed.institution ELSE <<>>),
                  strip_lower(IF Truthy(ed.degree) THEN ed.degree ELSE <<>>),
                  py_str(ed.start), py_str(ed.end)>>)

RECURSIVE edu_values(_, _)
edu_values(education, out) ==
  IF education = <<>> THEN out
  ELSE edu_values(Tail(education),
                  IF education_key(Head(education)) \in {education_key(e) : e \in Range(out)}
                  THEN out ELSE Append(out, Head(education)))

(* any(pref in sid.lower() for sid in b["source_ids"]) *)
preferred_bullet(b, pref) == \E k \in DOMAIN b.source_ids : Contains(pref, lower(b.source_ids[k]))

preferred_experience(exp, pref) == \E k \in DOMAIN exp.bullets : preferred_bullet(exp.bullets[k], pref)

prefer_bullets(bullets, pref) ==
  SelectSeq(bullets, LAMBDA b : preferred_bullet(b, pref))
    \o SelectSeq(bullets, LAMBDA b : b \notin {p \in Range(bullets) : preferred_bullet(p, pref)})

(* the bullets of every experience reordered, then the stable sort of the   *)
(* experiences with reverse=True on a boolean key                           *)
prefer_sorted(exps, pref) ==
  SelectSeq(exps, LAMBDA e : preferred_experience(e, pref))
    \o SelectSeq(exps, LAMBDA e : ~preferred_experience(e, pref))

prefer(merged_experience, prefer_substr) ==
  IF Truthy(prefer_substr)
  THEN prefer_sorted([k \in DOMAIN merged_experience |->
                        [merged_experience[k] EXCEPT
                           !.bullets = prefer_bullets(@, lower(prefer_substr))]],
                     lower(prefer_substr))
  ELSE merged_experience

merge_candidate(pieces, source_ids, prefer_substr) ==
  [identity |-> [name |-> <<>>, email |-> <<>>, phone |-> <<>>, location |-> <<>>, links |-> <<>>],
   work_experience |-> prefer(coalesce(collect_experience(pieces, source_ids, 1), <<>>), prefer_substr),
   education |-> edu_values(collect_education(pieces, source_ids, 1), <<>>),
   skills |-> [hard |-> dedup_list(collect_skills(pieces, source_ids, 1), <<>>), soft |-> <<>>],
   certifications |-> <<>>,
   projects |-> <<>>,
   artifacts |-> [k \in DOMAIN source_ids |->
                    [source_id |-> source_ids[k], type |-> "resume_or_letter",
                     uri_or_text |-> source_ids[k]]]]

(* Inputs of _merge_candidate *)

cAcme == <<"A","c","m","e">>

cBolt == <<"B","o","l","t">>

rEngineer == <<"E","n","g","i","n","e","e","r">>

y2020 == <<"2","0","2","0">>

sNone == py_str(None)

tAwsTeamCased == <<" ","A","W","S"," ","T","e","a","m"," ">>

sCvPdf == <<"C","V",".","p","d","f">>

sLiTxt == <<"l","i","n","k","e","d","i","n",".","t","x","t">>

sNotesTxt == <<"n","o","t","e","s",".","t","x","t">>

eMit == [institution |-> <<"M","I","T">>, degree |-> None, start |-> y2020, end |-> None]

ParsedExperience(company, end, bullets) ==
  [company |-> company, role |-> rEngineer, start |-> y2020, end |-> end, bullets |-> bullets]

(* what parse_resume_text made of a document: the same role in several      *)
(* documents, with a bullet repeated in another case and spacing            *)
Pieces ==
  { [work_experience |-> <<>>, skills |-> <<>>, education |-> <<>>],
    [work_experience |-> <<ParsedExperience(cAcme, None, <<tAwsTeam, tRanOps>>)>>,
     skills |-> <<kPy, kSql>>, education |-> <<eMit>>],
    [work_experience |-> <<ParsedExperience(cAcme, None, <<tAwsTeamCased, tX>>)>>,
     skills |-> <<kPyLower>>, education |-> <<eMit>>],
    [work_experience |-> <<ParsedExperience(cBolt, None, <<tAwsTeam, <<>>>>),
                           ParsedExperience(cAcme, None, <<tRanOps>>)>>,
     skills |-> <<>>, education |-> <<>>],
    [work_experience |-> <<ParsedExperience(cAcme, sNone, <<tX, tAwsTeam>>)>>,
     skills |-> <<>>, education |-> <<>>] }

SourceIds == <<sCvPdf, sLiTxt, sNotesTxt>>

(* main() gives one file name per piece; prefer_substr is --prefer *)
MergeCalls ==
  {[fn |-> "_merge_candidate", pieces |-> p, source_ids |-> SubSeq(SourceIds, 1, Len(p)),
    prefer_substr |-> pref] :
     p \in SeqsUpTo(Pieces, MaxPieces), pref \in {None, <<"L","i">>, <<"c","v">>}}

MergeInit ==
  /\ call \in MergeCalls
  /\ sklearn = FALSE
  /\ ret = None
  /\ pc = "ready"
  /\ candidate = Candidate(<<>>)
  /\ keywords = <<>>
  /\ job_text = None
  /\ budgets = <<0, 0, 0>>
  /\ selection = EmptySelection
  /\ prev = NoPrev
  /\ job = JobPosting(job_text, None, None, None, keywords)
  /\ NotAssembled
  /\ NotStarted

merge_candidate_call ==
  /\ pc = "ready"
  /\ call.fn = "_merge_candidate"
  /\ ret' = merge_candidate(call.pieces, call.source_ids, call.prefer_substr)
  /\ pc' = "returned"
  /\ UNCHANGED <<candidate, keywords, job_text, budgets, sklearn, selection, prev, call>>
  /\ UNCHANGED assembler_vars
  /\ UNCHANGED cli_vars

MergeNext == merge_candidate_call

MergeSpec == MergeInit /\ [][MergeNext]_vars

(* Properties of _merge_candidate, under MergeSpec *)

Merged == pc = "returned" /\ call.fn = "_merge_candidate"

(* the input documents, by position, that hold the text of bullet b under   *)
(* the (company, role, start, end) of the merged role e                     *)
Contributors(e, b) ==
  {i \in 1..Min(Len(call.pieces), Len(call.source_ids)) :
     \E x \in Range(call.pieces[i].work_experience) :
       /\ <<x.company, x.role, x.start, x.end>> = <<e.company, e.role, e.start, e.end>>
       /\ \E t \in Range(x.bullets) : strip_lower(t) = strip_lower(b.text)}

(* C27: a merged bullet's source_ids is non-empty, holds only input source  *)
(* identifiers and names every input document that holds its text (case     *)
(* and surrounding whitespace ignored) under the same company, role, start  *)
(* and end.                                                                 *)
C27_SourcesComplete ==
  Merged =>
    \A e \in Range(ret.work_experience) : \A b \in Range(e.bullets) :
      /\ b.source_ids # <<>>
      /\ Range(b.source_ids) \subseteq Range(call.source_ids)
      /\ \A i \in Contributors(e, b) : call.source_ids[i] \in Range(b.source_ids)

----------------------------------------------------------------------------
(* LLM refinement (llm.py).  What call_perplexity returns is not computed:  *)
(* a response is None (no API key, a failed request, no content), a text    *)
(* json.loads rejects, or the JSON object parsed from it.                   *)

NoContent == [kind |-> "none", obj |-> <<>>]

Unparsable == [kind |-> "unparsable", obj |-> <<>>]

Parsed(obj) == [kind |-> "json", obj |-> obj]

(* \b at the position after the first p characters of s *)
Boundary(s, p) ==
  (p >= 1 /\ s[p] \in WordChars) # (p < Len(s) /\ s[p + 1] \in WordChars)

(* the last index of the run of digits that starts at i *)
RECURSIVE DigitRunEnd(_, _)
DigitRunEnd(s, i) ==
  IF i < Len(s) /\ s[i + 1] \in Digits THEN DigitRunEnd(s, i + 1) ELSE i

(* with \d+ matched up to q: the end of the match, 0 when there is none.    *)
(* The optional group [\.,]\d+ is taken when a boundary follows it,         *)
(* otherwise the match ends at q if a boundary is there.                    *)
match_from(s, q) ==
  IF /\ q + 2 <= Len(s)
     /\ s[q + 1] \in {".", ","}
     /\ s[q + 2] \in Digits
     /\ Boundary(s, DigitRunEnd(s, q + 2))
  THEN DigitRunEnd(s, q + 2)
  ELSE IF Boundary(s, q) THEN q ELSE 0

(* the end of the match of \b\d+(?:[\.,]\d+)?\b that starts at i, else 0 *)
match_at(s, i) ==
  IF s[i] \in Digits /\ Boundary(s, i - 1) THEN match_from(s, DigitRunEnd(s, i)) ELSE 0

(* re.findall: the non-overlapping matches from left to right, as a set *)
RECURSIVE findall_from(_, _, _)
found(s, i, acc, e) ==
  IF e = 0 THEN findall_from(s, i + 1, acc)
  ELSE findall_from(s, e + 1, acc \cup {SubSeq(s, i, e)})

findall_from(s, i, acc) ==
  IF i > Len(s) THEN acc ELSE found(s, i, acc, match_at(s, i))

digits_set(text) == findall_from(IF Truthy(text) THEN text ELSE <<>>, 1, {})

(* one rewritten bullet against its original: kept unless it has a number   *)
(* the original lacks; kept unchecked when the original is empty            *)
guarded(nb, ob) ==
  IF ob = <<>> THEN nb
  ELSE IF digits_set(nb) \ digits_set(ob) # {} THEN ob
  ELSE nb

safe_list(new_bullets, originals) ==
  [i \in DOMAIN new_bullets |->
     guarded(new_bullets[i], IF i <= Len(originals) THEN originals[i] ELSE <<>>)]

(* dict.get(key, default) *)
get(d, key, default) == IF key \in DOMAIN d THEN d[key] ELSE default

(* out[ridx] = bullets for every role of the response: a later role with   *)
(* the same index replaces an earlier one                                   *)
out_by_role(roles) ==
  [r \in {roles[k].role_index.int : k \in DOMAIN roles} |->
     roles[CHOOSE k \in DOMAIN roles :
             /\ roles[k].role_index.int = r
             /\ \A l \in DOMAIN roles : roles[l].role_index.int = r => l <= k].bullets]

safe_by_role(out, originals_by_role) ==
  [r \in DOMAIN out |-> safe_list(out[r], get(originals_by_role, r, <<>>))]

(* a role_index of the response: an integer, or null, which int() rejects *)
JsonInt(n) == [null |-> FALSE, int |-> n]

JsonNull == [null |-> TRUE, int |-> 0]

(* int(role.get("role_index")) raises on None, and the except clause hands  *)
(* the originals back                                                       *)
safe_rewrite_bullets(originals_by_role, content) ==
  IF content.kind # "json" THEN originals_by_role
  ELSE IF \E k \in DOMAIN content.obj.roles : content.obj.roles[k].role_index.null
       THEN originals_by_role
       ELSE safe_by_role(out_by_role(content.obj.roles), originals_by_role)

originals_of(ctx) ==
  [r \in 0..(Len(ctx.experiences) - 1) |->
     [i \in DOMAIN ctx.experiences[r + 1].bullets |-> ctx.experiences[r + 1].bullets[i].text]]

(* faulty variant: a role's bullets are replaced by the rewritten list *)
write_back_replacing(ctx, refined_by_role) ==
  [ctx EXCEPT !.experiences =
     [r \in DOMAIN @ |->
        IF (r - 1) \in DOMAIN refined_by_role
        THEN [@[r] EXCEPT !.bullets =
                [i \in DOMAIN refined_by_role[r - 1] |->
                   [text |-> refined_by_role[r - 1][i], source_ids |-> <<>>]]]
        ELSE @[r]]]

write_back(ctx, refined_by_role) ==
  [ctx EXCEPT !.experiences =
     [r \in DOMAIN @ |->
        [@[r] EXCEPT !.bullets =
           [i \in DOMAIN @ |->
              IF (r - 1) \in DOMAIN refined_by_role /\ i <= Len(refined_by_role[r - 1])
              THEN [@[i] EXCEPT !.text = refined_by_role[r - 1][i]]
              ELSE @[i]]]]]

refine_resume_ctx_with_llm(ctx, content) ==
  write_back(ctx, safe_rewrite_bullets(originals_of(ctx), content))

(* the parsed letter object: each key is absent or holds a value; the value *)
(* of paragraphs is a list or, e.g., a single string                        *)
Absent == <<"absent">>

(* lines 154-161: None unless paragraphs is a non-empty list; returned is   *)
(* FALSE for None                                                           *)
validated_letter(obj, name) ==
  IF ~obj.paragraphs.list \/ obj.paragraphs.items = <<>>
  THEN [returned |-> FALSE, letter |-> NoLetter]
  ELSE [returned |-> TRUE,
        letter |-> [greeting   |-> IF obj.greeting = Absent THEN sHello ELSE obj.greeting,
                    paragraphs |-> slice_to(obj.paragraphs.items, 3),
                    closing    |-> IF obj.closing = Absent THEN sRegards \o name
                                   ELSE obj.closing]]

generate_cover_letter_with_llm(identity, content) ==
  IF content.kind # "json" THEN [returned |-> FALSE, letter |-> NoLetter]
  ELSE validated_letter(content.obj, get(identity, "name", <<>>))

----------------------------------------------------------------------------
(* Evaluation (evaluate.py) *)

EvalPunct == {".", ",", ";", ":", "!", "?", "(", ")", "[", "]", "{", "}"}

norm(t) == strip(strip(lower(t), Whitespace), EvalPunct)

RECURSIVE SeqUnion(_)
SeqUnion(sets) == IF sets = <<>> THEN {} ELSE Head(sets) \cup SeqUnion(Tail(sets))

bullet_tokens(bullets) ==
  SeqUnion([i \in DOMAIN bullets |-> {norm(w) : w \in Range(split(bullets[i].text))}])

resume_tokens(ctx) ==
  SeqUnion([r \in DOMAIN ctx.experiences |-> bullet_tokens(ctx.experiences[r].bullets)])
    \cup {norm(s) : s \in Range(ctx.skills)}

(* [norm(k) for k in job_keywords if k] *)
normed_keywords(job_keywords) ==
  [i \in DOMAIN SelectSeq(job_keywords, LAMBDA k : k # <<>>) |->
     norm(SelectSeq(job_keywords, LAMBDA k : k # <<>>)[i])]

(* round(n / d, 3), halves to the even neighbour *)
round3(n, d) ==
  IF 2 * ((1000 * n) % d) > d \/ (2 * ((1000 * n) % d) = d /\ ((1000 * n) \div d) % 2 = 1)
  THEN Rat((1000 * n) \div d + 1, 1000)
  ELSE Rat((1000 * n) \div d, 1000)

coverage_of(kws, tokens) ==
  [coverage |-> IF kws # <<>>
                THEN round3(Len(SelectSeq(kws, LAMBDA k : k \in tokens)), Max(1, Len(kws)))
                ELSE Zero,
   covered |-> SelectSeq(kws, LAMBDA k : k \in tokens),
   missing |-> slice_to(SelectSeq(kws, LAMBDA k : k \notin tokens), 15),
   total_keywords |-> Len(kws)]

keyword_coverage(job_keywords, ctx) ==
  coverage_of(normed_keywords(job_keywords), resume_tokens(ctx))

suggestions_for(cov, ctx) ==
  (IF RatLess(cov.coverage, Rat(35, 100))
   THEN <<"Low keyword coverage; consider adding relevant bullets or skills.">> ELSE <<>>)
  \o (IF ctx.experiences # <<>> /\ \A r \in DOMAIN ctx.experiences : ctx.experiences[r].bullets = <<>>
      THEN <<"No bullets selected; ensure candidate bullets are provided.">> ELSE <<>>)
  \o (IF ctx.skills = <<>>
      THEN <<"Skills section empty; include key tools and domains from JD.">> ELSE <<>>)

summarized(cov, ctx) == [keyword_coverage |-> cov, suggestions |-> suggestions_for(cov, ctx)]

summarize_evaluation(jb, ctx) == summarized(keyword_coverage(get(jb, "keywords", <<>>), ctx), ctx)

----------------------------------------------------------------------------
(* Interactive review (review.py).  The lines the user types are the        *)
(* answers: a pair <<choice, text>> is the answer to a y/N question and the *)
(* line typed if the question after it is asked.                            *)

(* _ask: the stripped line, or the default when the line is empty *)
ask(default, typed) ==
  IF strip(typed, Whitespace) = <<>> /\ default # None THEN default
  ELSE strip(typed, Whitespace)

chose_y(typed) == lower(ask(<<"N">>, typed)) = <<"y">>

reviewed_identity(ident, typed) ==
  [ident EXCEPT !.name = ask(@, typed[1]), !.email = ask(@, typed[2]),
                !.phone = ask(@, typed[3]), !.location = ask(@, typed[4])]

reviewed_bullet(b, typed) ==
  IF chose_y(typed[1]) THEN [b EXCEPT !.text = ask(@, typed[2])] ELSE b

(* faulty variant: a new bullet takes the source_ids of the role's first bullet *)
added_bullets_inheriting(bullets, typed) ==
  IF chose_y(typed[1]) /\ ask(<<>>, typed[2]) # <<>>
  THEN <<[text |-> ask(<<>>, typed[2]),
          source_ids |-> IF bullets = <<>> THEN <<>> ELSE bullets[1].source_ids]>>
  ELSE <<>>

added_bullets(bullets, typed) ==
  IF chose_y(typed[1]) /\ ask(<<>>, typed[2]) # <<>>
  THEN <<[text |-> ask(<<>>, typed[2]), source_ids |-> <<"user_added">>]>>
  ELSE <<>>

reviewed_bullets(bullets, answers, add) ==
  [i \in DOMAIN bullets |-> reviewed_bullet(bullets[i], answers[i])] \o added_bullets(bullets, add)

reviewed_experiences(exps, answers) ==
  [r \in DOMAIN exps |->
     [exps[r] EXCEPT !.bullets = reviewed_bullets(@, answers.bullets[r], answers.add[r])]]

(* the entries logged for role ri: one per bullet whose revised text differs *)
bullet_edits(ri, bullets, answers) ==
  SelectSeq([i \in DOMAIN bullets |->
               [role_index |-> ri, old |-> bullets[i].text,
                new |-> reviewed_bullet(bullets[i], answers[i]).text]],
            LAMBDA e : e.old # e.new)

RECURSIVE resume_edits(_, _, _)
resume_edits(exps, answers, r) ==
  IF r > Len(exps) THEN <<>>
  ELSE bullet_edits(r - 1, exps[r].bullets, answers.bullets[r]) \o resume_edits(exps, answers, r + 1)

resume_edited(exps, answers) ==
  \/ resume_edits(exps, answers, 1) # <<>>
  \/ \E r \in DOMAIN exps : added_bullets(exps[r].bullets, answers.add[r]) # <<>>

(* [s.strip() for s in skills_str.split(",") if s.strip()] *)
split_skills(skills_str) ==
  SelectSeq([i \in DOMAIN Fields(skills_str, 1, <<>>, <<>>, {","}, TRUE) |->
               strip(Fields(skills_str, 1, <<>>, <<>>, {","}, TRUE)[i], Whitespace)],
            LAMBDA s : s # <<>>)

reviewed_skills(skills, typed) == split_skills(ask(join(<<",", " ">>, skills), typed))

reviewed_field(value, typed) == IF chose_y(typed[1]) THEN ask(value, typed[2]) ELSE value

reviewed_letter(letter, answers) ==
  [greeting   |-> reviewed_field(letter.greeting, answers.greeting),
   paragraphs |-> [i \in DOMAIN letter.paragraphs |->
                     reviewed_field(letter.paragraphs[i], answers.paragraphs[i])],
   closing    |-> reviewed_field(letter.closing, answers.closing)]

letter_edited(letter, answers) ==
  \/ chose_y(answers.greeting[1])
  \/ \E i \in DOMAIN letter.paragraphs : chose_y(answers.paragraphs[i][1])
  \/ chose_y(answers.closing[1])

interactive_review(ctx, letter, answers) ==
  [resume_ctx |-> [ctx EXCEPT !.identity = reviewed_identity(@, answers.identity),
                              !.experiences = reviewed_experiences(@, answers),
                              !.skills = reviewed_skills(@, answers.skills)],
   letter_ctx |-> reviewed_letter(letter, answers),
   edits |-> [resume |-> [edited |-> resume_edited(ctx.experiences, answers),
                          bullets |-> resume_edits(ctx.experiences, answers, 1)],
              letter |-> [edited |-> letter_edited(letter, answers)]]]

----------------------------------------------------------------------------
(* Inputs of a run of the command line *)

tAdaMail == <<"a","d","a","@","e","x","a","m","p","l","e",".","o","r","g">>

tPara == <<"D","r","o","v","e"," ","A","W","S"," ","s","a","v","i","n","g","s">>

tPara35 == <<"C","u","t"," ","c","o","s","t"," ","3","5","%">>

tKept20 == <<"R","e","d","u","c","e","d"," ","A","W","S"," ","c","o","s","t"," ","b",
    "y"," ","2","0","%">>

tEdited == <<" ","C","u","t"," ","A","W","S"," ","c","o","s","t"," ">>

tNewBullet == <<"M","e","n","t","o","r","e","d"," ","3"," ","e","n","g","i","n","e","e",
    "r","s">>

tDear == <<"D","e","a","r"," ","t","e","a","m",",">>

pFirst == <<"F","i","r","s","t",".">>

pSecond == <<"S","e","c","o","n","d",".">>

pThird == <<"T","h","i","r","d",".">>

pFourth == <<"F","o","u","r","t","h",".">>

tEditedPara == <<" ","E","d","i","t","e","d","."," ">>

tSkillsTyped == <<"S","Q","L",","," ",","," ","G","o"," ">>

tNameTyped == <<" ","A","d","a"," ","L"," ">>

tPhone == <<"5","5","5">>

tOslo == <<"O","s","l","o">>

CliIdentity == [Identity EXCEPT !.email = tAdaMail]

(* <<work_experience, skills_hard, skills_soft>> *)
CliCandidates ==
  {[Candidate(p[1]) EXCEPT !.identity = CliIdentity, !.skills_hard = p[2], !.skills_soft = p[3]] :
     p \in {<<<<>>, <<>>, <<>>>>,
            <<<<rAcme, rBolt>>, <<kAws, kSql>>, <<kGrit>>>>,
            <<<<rBolt, rCato>>, <<>>, <<>>>>}}

(* what load_job or load_job_from_url makes of the job source *)
CliJobs ==
  {JobPosting(<<>>, None, None, None, <<>>),
   JobPosting(jAwsCostTeam, tDev, tInitech, "Remote", CliKeywords)}

(* the flags of a run; without a job source the other flags never matter,   *)
(* and PDF export is left on only for runs that neither refine nor review   *)
ArgsSet ==
  {a \in [job : BOOLEAN, job_url : BOOLEAN, confirm_jd : BOOLEAN, one_page : BOOLEAN,
          llm : BOOLEAN, review : BOOLEAN, no_pdf : BOOLEAN] :
     /\ (~a.job /\ ~a.job_url) => a = NoArgs
     /\ a.job_url => (~a.job /\ ~a.one_page /\ a.confirm_jd)
     /\ (a.llm \/ a.review) => a.no_pdf
     /\ a.one_page => ~a.confirm_jd}

(* personal_notes: None, or the text of --notes or of the prompt *)
CliNotes == {None, tThanks}

RoleObject(role_index, bullets) == [role_index |-> role_index, bullets |-> bullets]

(* responses to the bullet prompt: the roles may be fewer, more or others   *)
(* than given, and so may a role's bullets                                  *)
RefineResponses ==
  { NoContent, Unparsable,
    Parsed([roles |-> <<>>]),
    Parsed([roles |-> <<RoleObject(JsonInt(0), <<tKept20, tPara35>>), RoleObject(JsonInt(1), <<tPara35>>)>>]),
    Parsed([roles |-> <<RoleObject(JsonInt(0), <<tPara>>)>>]),
    Parsed([roles |-> <<RoleObject(JsonInt(1), <<tPara, tPara, tPara>>)>>]),
    Parsed([roles |-> <<RoleObject(JsonInt(7), <<tPara>>)>>]),
    Parsed([roles |-> <<RoleObject(JsonNull, <<tPara>>)>>]),
    Parsed([roles |-> <<RoleObject(JsonInt(0), <<tPara35>>), RoleObject(JsonInt(0), <<tPara>>)>>]) }

LetterObject(greeting, is_list, items, closing) ==
  [greeting |-> greeting, paragraphs |-> [list |-> is_list, items |-> items],
   closing |-> closing]

(* responses to the letter prompt; a missing paragraphs key reads as []     *)
LetterResponses ==
  { NoContent, Unparsable,
    Parsed(LetterObject(Absent, TRUE, <<>>, Absent)),
    Parsed(LetterObject(tDear, FALSE, pFirst, Absent)),
    Parsed(LetterObject(tDear, TRUE, <<pFirst, pSecond, pThird>>, Absent)),
    Parsed(LetterObject(Absent, TRUE, <<pFirst, pSecond, pThird, pFourth>>, tDear)),
    Parsed(LetterObject(Absent, TRUE, <<pFirst>>, Absent)) }

BulletAnswers == {<<<<>>, <<>>>>, <<<<"Y">>, <<>>>>, <<<<"y">>, tEdited>>}

AddAnswers == {<<<<>>, <<>>>>, <<<<"y">>, <<" ">>>>, <<<<"y">>, tNewBullet>>}

(* one answer per bullet, role by role *)
RECURSIVE BulletScripts(_, _)
BulletScripts(exps, r) ==
  IF r > Len(exps) THEN {<<>>}
  ELSE {<<h>> \o t : h \in [DOMAIN exps[r].bullets -> BulletAnswers],
                     t \in BulletScripts(exps, r + 1)}

(* the answers about header, skills and letter: all defaults, or all edited *)
ReviewAnswers(ctx, letter) ==
  {[identity |-> <<<<>>, <<>>, <<>>, <<>>>>, skills |-> <<>>,
    bullets |-> b, add |-> a,
    greeting |-> <<<<>>, <<>>>>,
    paragraphs |-> [i \in DOMAIN letter.paragraphs |-> <<<<>>, <<>>>>],
    closing |-> <<<<"n">>, <<>>>>] :
      b \in BulletScripts(ctx.experiences, 1), a \in [DOMAIN ctx.experiences -> AddAnswers]}
  \cup
  {[identity |-> <<tNameTyped, <<>>, tPhone, tOslo>>, skills |-> tSkillsTyped,
    bullets |-> b, add |-> a,
    greeting |-> <<<<"y">>, tDear>>,
    paragraphs |-> [i \in DOMAIN letter.paragraphs |-> <<<<"Y">>, tEditedPara>>],
    closing |-> <<<<"y">>, <<>>>>] :
      b \in BulletScripts(ctx.experiences, 1), a \in [DOMAIN ctx.experiences -> {<<<<>>, <<>>>>}]}

----------------------------------------------------------------------------
(* A run of the command line (cli.py, main), step by step *)

CliInit ==
  /\ candidate \in CliCandidates
  /\ job \in CliJobs
  /\ keywords = job.keywords
  /\ job_text = job.text
  /\ args \in ArgsSet
  /\ sklearn \in BOOLEAN
  /\ budgets = <<0, 0, 0>>
  /\ pc = "ready"
  /\ selection = EmptySelection
  /\ prev = NoPrev
  /\ call = NoCall
  /\ ret = None
  /\ NotAssembled
  /\ step = "start"
  /\ ans = None
  /\ eval_report = NoReport
  /\ edits = <<>>
  /\ written = <<>>

(* lines 49-65: the candidate and the job are loaded, or the run ends with  *)
(* SystemExit when no job source is given                                   *)
main_load_job ==
  /\ step = "start"
  /\ step' = IF args.job_url \/ args.job THEN "job_loaded" ELSE "exit"
  /\ UNCHANGED <<candidate, keywords, job_text, budgets, sklearn, pc, selection, prev>>
  /\ UNCHANGED scorer_vars
  /\ UNCHANGED assembler_vars
  /\ UNCHANGED <<args, ans, eval_report, edits, written>>

(* the line typed at the prompt "Proceed with this JD? (Y/n)" *)
ConfirmAnswers == {<<>>, <<"N", " ">>}

(* faulty variant: the answer to the prompt is not looked at *)
main_confirm_jd_unheeded ==
  /\ step = "job_loaded"
  /\ step' = "confirmed"
  /\ IF args.confirm_jd THEN ans' \in ConfirmAnswers ELSE UNCHANGED ans
  /\ UNCHANGED <<candidate, keywords, job_text, budgets, sklearn, pc, selection, prev>>
  /\ UNCHANGED scorer_vars
  /\ UNCHANGED assembler_vars
  /\ UNCHANGED <<args, eval_report, edits, written>>

(* lines 67-88: with --confirm-jd the answer "n" ends the run *)
main_confirm_jd ==
  /\ step = "job_loaded"
  /\ IF args.confirm_jd
     THEN /\ ans' \in ConfirmAnswers
          /\ step' = IF lower(strip(ans', Whitespace)) = <<"n">> THEN "aborted" ELSE "confirmed"
     ELSE /\ UNCHANGED ans
          /\ step' = "confirmed"
  /\ UNCHANGED <<candidate, keywords, job_text, budgets, sklearn, pc, selection, prev>>
  /\ UNCHANGED scorer_vars
  /\ UNCHANGED assembler_vars
  /\ UNCHANGED <<args, eval_report, edits, written>>

cli_budgets(one_page) == IF one_page THEN <<5, 3, 1>> ELSE <<6, 4, 2>>

(* lines 90-105: selection, resume context, personal notes, cover letter *)
main_generate ==
  /\ step = "confirmed"
  /\ budgets' = cli_budgets(args.one_page)
  /\ \E notes \in CliNotes :
     \E r \in {select_bullets(candidate, job.keywords, job.text, cli_budgets(args.one_page))} :
       IF r.exc
       THEN /\ step' = "raised"
            /\ UNCHANGED <<selection, personal_notes, resume_ctx, letter_ctx>>
       ELSE /\ step' = "generated"
            /\ selection' = r.val
            /\ resume_ctx' = build_resume_context(candidate, job, r.val)
            /\ personal_notes' = notes
            /\ letter_ctx' = build_cover_letter(candidate, job, r.val, notes)
  /\ UNCHANGED <<candidate, keywords, job_text, sklearn, pc, prev, job, calls>>
  /\ UNCHANGED scorer_vars
  /\ UNCHANGED <<args, ans, eval_report, edits, written>>

(* lines 138-144: with --llm the bullets are refined; a failure is passed over *)
main_llm_refine ==
  /\ step = "generated"
  /\ step' = "refined"
  /\ IF args.llm
     THEN \E content \in RefineResponses :
            resume_ctx' = refine_resume_ctx_with_llm(resume_ctx, content)
     ELSE UNCHANGED resume_ctx
  /\ UNCHANGED <<candidate, keywords, job_text, budgets, sklearn, pc, selection, prev,
                 job, personal_notes, letter_ctx, calls>>
  /\ UNCHANGED scorer_vars
  /\ UNCHANGED <<args, ans, eval_report, edits, written>>

replaced_by(llm_letter, letter) == IF llm_letter.returned THEN llm_letter.letter ELSE letter

(* lines 145-162: with --llm a letter is asked for and replaces the         *)
(* deterministic one if one is returned                                     *)
main_llm_letter ==
  /\ step = "refined"
  /\ step' = "lettered"
  /\ IF args.llm
     THEN \E content \in LetterResponses :
            letter_ctx' = replaced_by(generate_cover_letter_with_llm(resume_ctx.identity, content),
                                      letter_ctx)
     ELSE UNCHANGED letter_ctx
  /\ UNCHANGED <<candidate, keywords, job_text, budgets, sklearn, pc, selection, prev,
                 job, personal_notes, resume_ctx, calls>>
  /\ UNCHANGED scorer_vars
  /\ UNCHANGED <<args, ans, eval_report, edits, written>>

(* lines 164-187: the file names and the evaluation report *)
main_evaluate ==
  /\ step = "lettered"
  /\ step' = "evaluated"
  /\ eval_report' = summarize_evaluation(resume_ctx.job, resume_ctx)
  /\ UNCHANGED <<candidate, keywords, job_text, budgets, sklearn, pc, selection, prev>>
  /\ UNCHANGED scorer_vars
  /\ UNCHANGED assembler_vars
  /\ UNCHANGED <<args, ans, edits, written>>

(* faulty variant: the revised texts are written to the selection as well *)
main_review_through_selection ==
  /\ step = "evaluated"
  /\ step' = "reviewed"
  /\ IF args.review
     THEN \E answers \in ReviewAnswers(resume_ctx, letter_ctx) :
          \E r \in {interactive_review(resume_ctx, letter_ctx, answers)} :
            /\ resume_ctx' = r.resume_ctx
            /\ letter_ctx' = r.letter_ctx
            /\ edits' = r.edits
            /\ selection' =
                 [selection EXCEPT !.selected_by_role =
                    [i \in DOMAIN @ |->
                       [k \in DOMAIN @[i] |->
                          [@[i][k] EXCEPT !.text = r.resume_ctx.experiences[i + 1].bullets[k].text]]]]
     ELSE edits' = <<>> /\ UNCHANGED <<resume_ctx, letter_ctx, selection>>
  /\ UNCHANGED <<candidate, keywords, job_text, budgets, sklearn, pc, prev,
                 job, personal_notes, calls>>
  /\ UNCHANGED scorer_vars
  /\ UNCHANGED <<args, ans, eval_report, written>>

(* lines 189-197: with --review the contexts are revised by the user *)
main_review ==
  /\ step = "evaluated"
  /\ step' = "reviewed"
  /\ IF args.review
     THEN \E answers \in ReviewAnswers(resume_ctx, letter_ctx) :
          \E r \in {interactive_review(resume_ctx, letter_ctx, answers)} :
            /\ resume_ctx' = r.resume_ctx
            /\ letter_ctx' = r.letter_ctx
            /\ edits' = r.edits
     ELSE edits' = <<>> /\ UNCHANGED <<resume_ctx, letter_ctx>>
  /\ UNCHANGED <<candidate, keywords, job_text, budgets, sklearn, pc, selection, prev,
                 job, personal_notes, calls>>
  /\ UNCHANGED scorer_vars
  /\ UNCHANGED <<args, ans, eval_report, written>>

(* line 199 *)
main_render_resume ==
  /\ step = "reviewed"
  /\ step' = "resume_rendered"
  /\ written' = Append(written, [file |-> "resume", content |-> resume_ctx])
  /\ UNCHANGED <<candidate, keywords, job_text, budgets, sklearn, pc, selection, prev>>
  /\ UNCHANGED scorer_vars
  /\ UNCHANGED assembler_vars
  /\ UNCHANGED <<args, ans, eval_report, edits>>

(* line 200 *)
main_render_cover_letter ==
  /\ step = "resume_rendered"
  /\ step' = "letter_rendered"
  /\ written' = Append(written, [file |-> "cover_letter",
                                 content |-> [identity |-> resume_ctx.identity,
                                              letter_ctx |-> letter_ctx,
                                              job_company |-> job.company]])
  /\ UNCHANGED <<candidate, keywords, job_text, budgets, sklearn, pc, selection, prev>>
  /\ UNCHANGED scorer_vars
  /\ UNCHANGED assembler_vars
  /\ UNCHANGED <<args, ans, eval_report, edits>>

(* lines 202-211 *)
main_write_trace ==
  /\ step = "letter_rendered"
  /\ step' = "trace_written"
  /\ written' = Append(written, [file |-> "trace",
                                 content |-> [trace |-> resume_ctx.trace,
                                              job_keywords |-> job.keywords,
                                              evaluation |-> eval_report,
                                              edits |-> edits]])
  /\ UNCHANGED <<candidate, keywords, job_text, budgets, sklearn, pc, selection, prev>>
  /\ UNCHANGED scorer_vars
  /\ UNCHANGED assembler_vars
  /\ UNCHANGED <<args, ans, eval_report, edits>>

exported(converted, name) == IF converted THEN <<[file |-> name, content |-> <<>>]>> ELSE <<>>

(* lines 213-221: each document is exported to PDF if a converter succeeds *)
main_export_pdf ==
  /\ step = "trace_written"
  /\ step' = "done"
  /\ IF args.no_pdf
     THEN UNCHANGED written
     ELSE \E resume_converted, letter_converted \in BOOLEAN :
            written' = written \o exported(resume_converted, "resume_pdf")
                               \o exported(letter_converted, "cover_letter_pdf")
  /\ UNCHANGED <<candidate, keywords, job_text, budgets, sklearn, pc, selection, prev>>
  /\ UNCHANGED scorer_vars
  /\ UNCHANGED assembler_vars
  /\ UNCHANGED <<args, ans, eval_report, edits>>

CliNext ==
  \/ main_load_job
  \/ main_confirm_jd
  \/ main_generate
  \/ main_llm_refine
  \/ main_llm_letter
  \/ main_evaluate
  \/ main_review
  \/ main_render_resume
  \/ main_render_cover_letter
  \/ main_write_trace
  \/ main_export_pdf

CliSpec == CliInit /\ [][CliNext]_vars

(***************************************************************************)
(* Properties of the optional LLM steps                                    *)
(***************************************************************************)

(* the experiences of a context with every bullet's text blanked: what is  *)
(* left is everything but the texts                                         *)
WithoutTexts(exps) ==
  [r \in DOMAIN exps |->
     [exps[r] EXCEPT !.bullets = [i \in DOMAIN @ |-> [@[i] EXCEPT !.text = <<>>]]]]

(* C22: the LLM bullet-refinement step changes only the text of bullets    *)
(* of the resume context: the number and order of experiences and of       *)
(* bullets, every bullet's source_ids, the trace and all other fields of   *)
(* the context stay as they were                                            *)
C22_OnlyTextsRewritten ==
  [][(step = "generated" /\ step' = "refined") =>
       /\ WithoutTexts(resume_ctx'.experiences) = WithoutTexts(resume_ctx.experiences)
       /\ [resume_ctx' EXCEPT !.experiences = <<>>] = [resume_ctx EXCEPT !.experiences = <<>>]
       /\ selection' = selection]_vars

(* a refinement has rewritten the text of a selected bullet *)
C22_Witness ==
  /\ step = "refined"
  /\ args.llm
  /\ \E r \in DOMAIN resume_ctx.experiences :
       \E i \in DOMAIN resume_ctx.experiences[r].bullets :
         /\ resume_ctx.experiences[r].bullets[i].text
              # selection.selected_by_role[r - 1][i].text
         /\ resume_ctx.experiences[r].bullets[i].source_ids
              = selection.selected_by_role[r - 1][i].source_ids

(* C23: after the refinement no bullet of the resume context holds a       *)
(* numeric token that its text before the refinement (the selected         *)
(* bullet's text) did not hold, bullets with an empty original text        *)
(* included                                                                 *)
C23_NoNewNumbers ==
  step = "refined" =>
    \A r \in DOMAIN resume_ctx.experiences :
      \A i \in DOMAIN resume_ctx.experiences[r].bullets :
        digits_set(resume_ctx.experiences[r].bullets[i].text)
          \subseteq digits_set(selection.selected_by_role[r - 1][i].text)

(* C24: after the LLM cover-letter step the letter of the run is either    *)
(* the deterministic letter of build_cover_letter, unchanged, or a letter  *)
(* of the skeleton's shape, with a greeting, exactly three paragraphs and  *)
(* a closing; the run goes on either way                                    *)
C24_LetterShapeKept ==
  step \in {"lettered", "evaluated"} =>
    \/ letter_ctx = build_cover_letter(candidate, job, selection, personal_notes)
    \/ /\ DOMAIN letter_ctx = {"greeting", "paragraphs", "closing"}
       /\ Len(letter_ctx.paragraphs) = 3

(***************************************************************************)
(* Properties of the run of the command line                               *)
(***************************************************************************)

(* the steps of a run at which the selection has been made *)
AfterGenerate ==
  {"generated", "refined", "lettered", "evaluated", "reviewed", "resume_rendered",
   "letter_rendered", "trace_written", "done"}

(* C25: what select_bullets returned is not changed by any later step of   *)
(* the run: after the contexts were built, refined by the LLM and          *)
(* reviewed (bullets edited and added), the selection still is the         *)
(* result of select_bullets, with every selected bullet's text,            *)
(* source_ids and score and the per-role lists                             *)
C25_SelectionKept ==
  step \in AfterGenerate =>
    selection = select_bullets(candidate, job.keywords, job.text, budgets).val

(* a run in which the LLM rewrote a bullet and the review then edited a    *)
(* bullet and added one                                                     *)
C25_Witness ==
  /\ step = "reviewed"
  /\ args.llm
  /\ args.review
  /\ edits.resume.bullets # <<>>
  /\ \E r \in DOMAIN resume_ctx.experiences :
       /\ Len(resume_ctx.experiences[r].bullets) > Len(selection.selected_by_role[r - 1])
       /\ \E i \in DOMAIN selection.selected_by_role[r - 1] :
            resume_ctx.experiences[r].bullets[i].text # selection.selected_by_role[r - 1][i].text

(* the entries the log is stated to hold, read off the contexts before and *)
(* after the review: role by role, one for each bullet that was there      *)
(* before and whose text differs afterwards                                 *)
RECURSIVE StatedEdits(_, _, _)
StatedEdits(before, after, r) ==
  IF r > Len(before) THEN <<>>
  ELSE SelectSeq([i \in DOMAIN before[r].bullets |->
                    [role_index |-> r - 1, old |-> before[r].bullets[i].text,
                     new |-> after[r].bullets[i].text]],
                 LAMBDA e : e.old # e.new)
       \o StatedEdits(before, after, r + 1)

(* the bullets of a role after the review, against those before it: the    *)
(* old ones first, in their order and with their source_ids, then the      *)
(* added ones, tagged user_added                                            *)
ReviewedRole(old, new) ==
  /\ Len(new) >= Len(old)
  /\ \A i \in DOMAIN old : new[i].source_ids = old[i].source_ids
  /\ \A i \in DOMAIN new : i > Len(old) => new[i].source_ids = <<"user_added">>

(* C26: the interactive review keeps every bullet of the resume context in *)
(* its role and in its order with its source_ids unchanged, whatever the   *)
(* user answers, gives every added bullet the source_ids ['user_added'],   *)
(* and logs one {role_index, old, new} entry for each existing bullet      *)
(* whose text changed                                                       *)
C26_ReviewKeepsSources ==
  [][(step = "evaluated" /\ step' = "reviewed" /\ args.review) =>
       /\ Len(resume_ctx'.experiences) = Len(resume_ctx.experiences)
       /\ \A r \in DOMAIN resume_ctx.experiences :
            ReviewedRole(resume_ctx.experiences[r].bullets, resume_ctx'.experiences[r].bullets)
       /\ edits'.resume.bullets
            = StatedEdits(resume_ctx.experiences, resume_ctx'.experiences, 1)]_vars

(* a review that edited the text of a bullet with sources and added a      *)
(* bullet to a role                                                         *)
C26_Witness ==
  /\ step = "reviewed"
  /\ args.review
  /\ \E e \in Range(edits.resume.bullets) : e.old # <<>>
  /\ \E r \in DOMAIN resume_ctx.experiences :
       \E i \in DOMAIN resume_ctx.experiences[r].bullets :
         /\ i > 1
         /\ resume_ctx.experiences[r].bullets[i].source_ids = <<"user_added">>

(* nothing was selected, assembled or written *)
NothingProduced ==
  /\ selection = EmptySelection
  /\ resume_ctx = None
  /\ letter_ctx = NoLetter
  /\ eval_report = NoReport
  /\ written = <<>>

(* the files written before the k-th *)
WrittenBefore(k) == {written[i].file : i \in 1..(k - 1)}

(* the order of the run stated for its steps, as what holds of every state *)
StepsInOrder ==
  /\ (~args.job /\ ~args.job_url) => (step \in {"start", "exit"} /\ NothingProduced)
  /\ step = "exit" => (~args.job /\ ~args.job_url)
  /\ (ans # None /\ lower(strip(ans, Whitespace)) = <<"n">>) => step = "aborted"
  /\ step = "aborted" => NothingProduced
  /\ \A k \in DOMAIN written :
       written[k].file = "trace" =>
         /\ {"resume", "cover_letter"} \subseteq WrittenBefore(k)
         /\ written[k].content.evaluation = eval_report

(* the order of the run stated for its steps, as what holds of every step: *)
(* the report is computed from the context before the review, and the      *)
(* review leaves it as it is                                                *)
EvaluatedBeforeReview ==
  /\ step' = "reviewed" =>
       /\ step \in {"evaluated", "reviewed"}
       /\ eval_report' = eval_report
       /\ step = "evaluated" => eval_report = summarize_evaluation(resume_ctx.job, resume_ctx)
  /\ eval_report' # eval_report => (step = "lettered" /\ step' = "evaluated")

(* C30: the steps of a run come in a fixed order: without a job source the *)
(* run ends before anything is selected; an answer "n" to the --confirm-jd *)
(* prompt ends it before anything is selected, rendered or written; the    *)
(* evaluation report is computed before the interactive review, so the     *)
(* report written to the trace is the one of the context before the        *)
(* review; both documents are rendered before the trace is written         *)
C30_StepsInFixedOrder == [][StepsInOrder' /\ EvaluatedBeforeReview]_vars

(* a full run with a confirmed posting and a review that changed the       *)
(* resume: the trace is written after both documents and holds the report  *)
(* of the context before the review, which the reviewed context would not  *)
(* give                                                                     *)
C30_Witness ==
  /\ step = "trace_written"
  /\ args.confirm_jd
  /\ args.review
  /\ [i \in DOMAIN written |-> written[i].file] = <<"resume", "cover_letter", "trace">>
  /\ written[3].content.evaluation # summarize_evaluation(resume_ctx.job, resume_ctx)

====
